---- MODULE Spec2Model ----
(***************************************************************************)
(* A model of abcp_b24_garage_sync: the SQLite record store (db.py), the   *)
(* Bitrix24 deal client (b24_client.py) and the reconciliation loop        *)
(* sync_all (sync_service.py).                                             *)
(*                                                                         *)
(* Python values are represented as follows.  None is the string NoneV     *)
(* where a string is expected and 0 where a deal id is expected (deal ids  *)
(* and garage ids are positive).  str(v) of an integer is ToString(v).     *)
(* A dict is a function whose DOMAIN is its key set.                       *)
(***************************************************************************)
EXTENDS Integers, Sequences, FiniteSets, TLC

VARIABLES
    garage,       \* table garage: the set of stored rows (id is the primary key)
    sync_status,  \* table sync_status: a function userId -> row, on the users that have one
    sync_audit,   \* table sync_audit: the sequence of rows, in AUTOINCREMENT order
    tx,           \* the statements executed on save_sync_result's connection and not yet committed
    deals,        \* Bitrix24: deal id -> [exists, fields]
    crmFail,      \* Bitrix24: the REST methods that currently answer with an error
    pc,           \* where the process is
    args,         \* _execute_sync: the parsed arguments a, [only_store, only_sync]
    slices,       \* _execute_sync: the year slices of the requested period
    abcp,         \* ABCP: [creds, down, cars], see AbcpInit
    slice_i,      \* _execute_sync: the 1-based index of the slice being fetched
    payload,      \* _execute_sync: the payload fetched last
    fetchLog,     \* history: what each slice iteration of this run did, in order
    sync_all_user_id, \* sync_all: its argument user_id (0: None, all customers)
    rows,         \* sync_all: the rows selected
    i,            \* sync_all: the 1-based index of the row being processed
    ok,           \* sync_all: counter of updated customers
    skipped,      \* sync_all: counter of skipped customers
    errors,       \* sync_all: counter of failed customers
    deal_id,      \* sync_all: the deal found for the current row (0: none yet)
    new_fields,   \* sync_all: the candidate fields of the current row
    current,      \* sync_all: the deal's current values of the candidate fields
    diff,         \* sync_all: the changed subset
    saveArgs,     \* the arguments of the save_sync_result call in progress
    saveInTry,    \* TRUE when that call was made inside the try block of lines 256-273
    events,       \* history: the CRM calls and the persisted outcomes of this run, in order
    iteration,    \* main: the number of the _execute_sync call of the while loop
    sleeps,       \* main: the number of time.sleep calls made between the iterations
    uf_cache,     \* b24_client: what lru_cache holds for _deal_userfields_map, see NoCache
    userfields,   \* Bitrix24: the codes of the user fields defined on deals
    udf,          \* update_deal_fields: its locals, see NoUdf
    net           \* the answers the remote system gives to the coming HTTP attempts

vars == <<garage, sync_status, sync_audit, tx, deals, crmFail, pc,
          args, slices, abcp, slice_i, payload, fetchLog,
          sync_all_user_id, rows, i, ok, skipped, errors, deal_id, new_fields, current, diff,
          saveArgs, saveInTry, events, iteration, sleeps, uf_cache, userfields, udf, net>>

dbVars   == <<garage, sync_status, sync_audit, tx>>
crmVars  == <<deals, crmFail>>
rowVars  == <<deal_id, new_fields, current, diff>>
cntVars  == <<ok, skipped, errors>>
mainVars == <<iteration, sleeps>>
b24Vars  == <<uf_cache, userfields, udf, net>>
argVars  == <<args, slices, abcp, mainVars, b24Vars>>
fetchVars == <<argVars, slice_i, payload, fetchLog>>
syncVars == <<sync_all_user_id, rows, i, cntVars, rowVars, saveArgs, saveInTry, events>>

(***************************************************************************)
(* Bounds and domains                                                      *)
(***************************************************************************)
MaxSlices == 2

NoneV == "<None>"
EmptyDict == [c \in {} |-> NoneV]

UserIds   == {0, 1, 2}
GarageIds == {1, 2}
DealIds   == {11, 12}
Times     == <<"2024-05-01 10:00:00", "2025-02-03 08:30:00">>
Mileages  == {0, 7}
BatchLens == {0, 1, 2}

Range(s) == {s[k] : k \in DOMAIN s}

\* A car of an ABCP payload after store_payload's setdefault calls: the
\* columns of table garage this model keeps.
Cars == [id : GarageIds, userId : UserIds, dateUpdated : Range(Times), mileage : Mileages]

\* A key the record lacks.  Records that lack a column UPSERT_SQL binds:
\* the id (written 0 here), or dateUpdated.
Missing == "<missing>"
MalformedCars ==
    {[id |-> 0, userId |-> 1, dateUpdated |-> Times[1], mileage |-> 0]}
    \cup [id : GarageIds, userId : {1}, dateUpdated : {Missing}, mileage : {0}]

\* The payloads fetch_garage can return when ABCP holds the records cars:
\* the batches of at most two of them (the payload's lists, flattened in
\* the order store_payload walks them).
PayloadsOf(cars) == UNION {[1..n -> cars] : n \in BatchLens}
Payloads == PayloadsOf(Cars)

\* The years of the slices of a period: the first year of the default
\* period of main, and the years after it.
FirstYear == 2024
YearSlices(n) == [k \in 1..n |-> FirstYear + k - 1]

(***************************************************************************)
(* util.py: slice_by_years                                                 *)
(***************************************************************************)
\* datetime(year, month, day, hour, minute, second) as the year, the
\* second of the year and the microsecond (0 when it is not given).
IsLeap(y) == (y % 4 = 0 /\ y % 100 # 0) \/ y % 400 = 0
DaysInMonth(y, m) ==
    IF m = 2 THEN (IF IsLeap(y) THEN 29 ELSE 28)
    ELSE IF m \in {4, 6, 9, 11} THEN 30 ELSE 31
RECURSIVE DaysBefore(_, _)
DaysBefore(y, m) == IF m = 1 THEN 0 ELSE DaysBefore(y, m - 1) + DaysInMonth(y, m - 1)
datetime(y, mo, d, h, mi, s) ==
    [year |-> y, sec |-> (DaysBefore(y, mo) + d - 1) * 86400 + h * 3600 + mi * 60 + s, us |-> 0]

\* datetime.fromisoformat of a text with a fraction of a second.
fromisoformat(y, mo, d, h, mi, s, us) == [datetime(y, mo, d, h, mi, s) EXCEPT !.us = us]

\* The comparisons of two datetimes.
DtLe(a, b) ==
    \/ a.year < b.year
    \/ a.year = b.year /\ a.sec < b.sec
    \/ a.year = b.year /\ a.sec = b.sec /\ a.us <= b.us
DtGt(a, b) == ~DtLe(a, b)

\* A bug slice_by_years could have: the period is returned as one slice.
slice_by_years_unsplit(start, end) == IF DtLe(start, end) THEN << <<start, end>> >> ELSE <<>>

\* lines 10-15: the while loop, from cur on.
RECURSIVE SliceLoop(_, _, _)
SliceLoop(cur, end, res) ==
    IF ~DtLe(cur, end) THEN res
    ELSE LET dec31    == datetime(cur.year, 12, 31, 23, 59, 59)
             year_end == IF DtGt(dec31, end) THEN end ELSE dec31
         IN  SliceLoop(datetime(cur.year + 1, 1, 1, 0, 0, 1), end, Append(res, <<cur, year_end>>))

\* slice_by_years(start, end): the list of (cur, year_end).
slice_by_years(start, end) ==
    LET jan1 == datetime(start.year, 1, 1, 0, 0, 1)
    IN  SliceLoop(IF DtGt(start, jan1) THEN start ELSE jan1, end, <<>>)

(***************************************************************************)
(* Configuration (config.py, read from the environment)                    *)
(***************************************************************************)
\* BITRIX_FIELD_ENV_MAP restricted to four source attributes: each maps to
\* a TUPLE of environment names.
PyTuple(items) == [type |-> "tuple", items |-> items]
PyStr(text)    == [type |-> "str", items |-> <<text>>]

BITRIX_FIELD_ENV_MAP ==
    <<  [abcp_key |-> "id",          env_name |-> PyTuple(<<"UF_B24_DEAL_GARAGE_ID">>)],
        [abcp_key |-> "userId",      env_name |-> PyTuple(<<"UF_B24_DEAL_GARAGE_USER_ID", "UF_B24_DEAL_ABCP_USER_ID">>)],
        [abcp_key |-> "mileage",     env_name |-> PyTuple(<<"UF_B24_DEAL_GARAGE_MILEAGE">>)],
        [abcp_key |-> "dateUpdated", env_name |-> PyTuple(<<"UF_B24_DEAL_GARAGE_DATE_UPDATED">>)] >>

\* The process environment: the UF code configured under each name ("" when
\* the variable is not set).
Environ ==
    [ UF_B24_DEAL_GARAGE_ID           |-> "",
      UF_B24_DEAL_GARAGE_USER_ID      |-> "UF_CRM_GUSER",
      UF_B24_DEAL_ABCP_USER_ID        |-> "UF_CRM_ABCP",
      UF_B24_DEAL_GARAGE_MILEAGE      |-> "UF_CRM_MILEAGE",
      UF_B24_DEAL_GARAGE_DATE_UPDATED |-> "UF_CRM_DATE" ]

UF_B24_DEAL_ABCP_USER_ID == Environ["UF_B24_DEAL_ABCP_USER_ID"]

\* os.getenv(key, default): the key must be a str; any other key makes
\* os.environ's encodekey raise TypeError ("str expected, not tuple").
getenv(key, default) ==
    IF key.type # "str"
    THEN [raised |-> "TypeError", value |-> default]
    ELSE LET name == key.items[1]
         IN  [raised |-> "",
              value  |-> IF name \in DOMAIN Environ /\ Environ[name] # ""
                         THEN Environ[name] ELSE default]

\* SYNC_OVERWRITE_DEFAULT and SYNC_OVERWRITE_FIELDS, here with the
\* environment SYNC_OVERWRITE_FIELDS={"mileage": false}.
SYNC_OVERWRITE_DEFAULT == TRUE
SYNC_OVERWRITE_FIELDS  == [k \in {"mileage"} |-> FALSE]

\* The UF codes in the order BITRIX_FIELD_ENV_MAP lists them (dict order).
CodeOrder == <<"UF_CRM_GUSER", "UF_CRM_ABCP", "UF_CRM_MILEAGE", "UF_CRM_DATE">>
Codes     == Range(CodeOrder)

\* list(d.keys()) of a dict whose keys were inserted in CodeOrder.
KeyList(d) == SelectSeq(CodeOrder, LAMBDA c : c \in DOMAIN d)

(***************************************************************************)
(* db.py: the record store                                                 *)
(***************************************************************************)
\* A bug UPSERT_SQL could have: ON CONFLICT(id) DO NOTHING, which keeps the
\* row stored first.
UPSERT_SQL_DoNothing(g, car) ==
    IF \E r \in g : r.id = car.id THEN g ELSE g \cup {car}

\* UPSERT_SQL: INSERT ... ON CONFLICT(id) DO UPDATE SET every column.
UPSERT_SQL(g, car) == {r \in g : r.id # car.id} \cup {car}

\* c.execute(UPSERT_SQL, params) needs a value for every named binding:
\* a record that lacks one makes it raise sqlite3.ProgrammingError.
Bindable(car) == car.id # 0 /\ car.dateUpdated # Missing

\* A bug StoreLoop could have: total counts the rows inserted, not the rows
\* upserted.
RECURSIVE StoreLoop_CountInserts(_, _, _)
StoreLoop_CountInserts(g, batch, total) ==
    IF batch = <<>> THEN [raised |-> "", garage |-> g, total |-> total]
    ELSE IF ~Bindable(Head(batch))
         THEN [raised |-> "sqlite3.ProgrammingError", garage |-> g, total |-> total]
         ELSE StoreLoop_CountInserts(UPSERT_SQL(g, Head(batch)), Tail(batch),
                 IF \E r \in g : r.id = Head(batch).id THEN total ELSE total + 1)

\* store_payload, lines 175-216: the loop over the cars on one connection.
\* g is the table as the open transaction sees it, total the rows upserted.
RECURSIVE StoreLoop(_, _, _)
StoreLoop(g, batch, total) ==
    IF batch = <<>> THEN [raised |-> "", garage |-> g, total |-> total]
    ELSE IF ~Bindable(Head(batch))
         THEN [raised |-> "sqlite3.ProgrammingError", garage |-> g, total |-> total]
         ELSE StoreLoop(UPSERT_SQL(g, Head(batch)), Tail(batch), total + 1)

\* A bug store_payload could have: a connection in autocommit mode, where
\* the rows upserted before the failure stay.
store_payload_autocommit(g, batch) ==
    IF batch = <<>> THEN [raised |-> "", garage |-> g, total |-> 0]
    ELSE StoreLoop(g, batch, 0)

\* store_payload(payload) on table g: an empty payload returns 0 at once;
\* otherwise the loop runs in one transaction, committed at line 218 and
\* rolled back by the connection's context manager when a statement
\* raises (the exception is logged and re-raised, lines 223-225).
store_payload(g, batch) ==
    IF batch = <<>> THEN [raised |-> "", garage |-> g, total |-> 0]
    ELSE LET r == StoreLoop(g, batch, 0)
         IN  IF r.raised # "" THEN [r EXCEPT !.garage = g] ELSE r

(***************************************************************************)
(* abcp_client.py: the ABCP client                                         *)
(***************************************************************************)
\* fetch_garage(start, end) for the slice of a year: the outcomes it can
\* have.  _require_creds raises before any request when ABCP_USERLOGIN or
\* ABCP_USERPSW is not set; a response that is neither 200 nor "not found"
\* for the candidate URLs raises requests.HTTPError; otherwise the payload
\* is returned ({} for "not found").
fetch_garage(year) ==
    IF ~abcp.creds
    THEN {[raised |-> "AbcpConfigError", requested |-> FALSE, data |-> <<>>]}
    ELSE IF year \in abcp.down
         THEN {[raised |-> "requests.HTTPError", requested |-> TRUE, data |-> <<>>]}
         ELSE {[raised |-> "", requested |-> TRUE, data |-> p] : p \in PayloadsOf(abcp.cars)}

(***************************************************************************)
(* main.py: _execute_sync, the fetch stage                                 *)
(***************************************************************************)
\* A bug init_db could have: the fetch stage runs although --only-sync is
\* set.
init_db_always_fetch ==
    /\ pc = "start"
    /\ pc' = "fetch"
    /\ slice_i' = 1
    /\ UNCHANGED <<dbVars, crmVars, argVars, payload, fetchLog, syncVars>>

\* lines 72-84: init_db (CREATE TABLE / INDEX IF NOT EXISTS; the rows are
\* left alone), then the fetch stage unless --only-sync is set.
init_db ==
    /\ pc = "start"
    /\ pc' = IF args.only_sync THEN "reconcile" ELSE "fetch"
    /\ slice_i' = 1
    /\ UNCHANGED <<dbVars, crmVars, argVars, payload, fetchLog, syncVars>>

\* A bug fetch_slice could have: an exception of fetch_garage or
\* store_payload ends the loop over the slices.
fetch_slice_abort ==
    /\ pc = "fetch" /\ slice_i <= Len(slices)
    /\ \E f \in fetch_garage(slices[slice_i]) :
          LET st == store_payload(garage, f.data)
              entry == [ slice |-> slices[slice_i], requested |-> f.requested,
                         raised |-> f.raised, stored |-> FALSE, total |-> 0,
                         repeat |-> /\ f.raised = "" /\ fetchLog # <<>>
                                    /\ fetchLog[Len(fetchLog)].stored
                                    /\ f.data = payload ]
          IN  IF f.raised # ""
              THEN /\ fetchLog' = Append(fetchLog, entry)
                   /\ slice_i' = Len(slices) + 1
                   /\ UNCHANGED <<garage, payload>>
              ELSE /\ payload' = f.data
                   /\ garage' = st.garage
                   /\ slice_i' = IF st.raised = "" THEN slice_i + 1 ELSE Len(slices) + 1
                   /\ fetchLog' = Append(fetchLog,
                          [entry EXCEPT !.raised = st.raised,
                                        !.stored = (st.raised = ""),
                                        !.total = st.total])
    /\ UNCHANGED <<sync_status, sync_audit, tx, crmVars, argVars, pc, syncVars>>

\* lines 87-106: one iteration of the loop over the slices.  An exception
\* of fetch_garage or store_payload is logged and the loop goes on.
fetch_slice ==
    /\ pc = "fetch" /\ slice_i <= Len(slices)
    /\ \E f \in fetch_garage(slices[slice_i]) :
          LET st == store_payload(garage, f.data)
              \* repeat: the payload is the one the iteration before stored
              entry == [ slice |-> slices[slice_i], requested |-> f.requested,
                         raised |-> f.raised, stored |-> FALSE, total |-> 0,
                         repeat |-> /\ f.raised = "" /\ fetchLog # <<>>
                                    /\ fetchLog[Len(fetchLog)].stored
                                    /\ f.data = payload ]
          IN  IF f.raised # ""
              THEN /\ fetchLog' = Append(fetchLog, entry)
                   /\ UNCHANGED <<garage, payload>>
              ELSE /\ payload' = f.data
                   /\ garage' = st.garage
                   /\ fetchLog' = Append(fetchLog,
                          [entry EXCEPT !.raised = st.raised,
                                        !.stored = (st.raised = ""),
                                        !.total = st.total])
    /\ slice_i' = slice_i + 1
    /\ UNCHANGED <<sync_status, sync_audit, tx, crmVars, argVars, pc, syncVars>>

\* lines 107-109: the loop is over.
fetch_finished ==
    /\ pc = "fetch" /\ slice_i > Len(slices)
    /\ pc' = "reconcile"
    /\ payload' = <<>>
    /\ UNCHANGED <<dbVars, crmVars, argVars, slice_i, fetchLog, syncVars>>

\* lines 109-115 with --only-store: no reconcile stage.
execute_sync_done ==
    /\ pc = "reconcile" /\ args.only_store
    /\ pc' = "done"
    /\ UNCHANGED <<dbVars, crmVars, fetchVars, syncVars>>

\* The sync_audit row and the sync_status row save_sync_result writes for
\* its arguments (createdAt / lastSyncedAt, the wall clock, are left out).
\* updated_field_codes None and [] both give "[]" and count 0; error "" is
\* stored as NULL, as None is.
AuditRow(a) ==
    [ userId |-> a.user_id, dealId |-> a.deal_id,
      sourceGarageId |-> a.source_garage_id,
      sourceDateUpdated |-> a.source_date_updated,
      result |-> a.result,
      fieldsUpdatedCount |-> Len(a.updated_field_codes),
      fieldsUpdatedJson |-> a.updated_field_codes,
      error |-> a.error ]

StatusRow(a) ==
    [ userId |-> a.user_id, dealId |-> a.deal_id,
      sourceGarageId |-> a.source_garage_id,
      sourceDateUpdated |-> a.source_date_updated,
      lastResult |-> a.result,
      fieldsUpdatedCount |-> Len(a.updated_field_codes),
      fieldsUpdatedJson |-> a.updated_field_codes,
      lastError |-> a.error ]

\* A bug UpsertStatus could have: ON CONFLICT(userId) DO NOTHING, which
\* keeps the user's first status row.
UpsertStatus_DoNothing(st, row) ==
    [u \in DOMAIN st \cup {row.userId} |-> IF u \in DOMAIN st THEN st[u] ELSE row]

\* INSERT INTO sync_status ... ON CONFLICT(userId) DO UPDATE SET ...
UpsertStatus(st, row) ==
    [u \in DOMAIN st \cup {row.userId} |-> IF u = row.userId THEN row ELSE st[u]]

\* A bug CommitAudit could have: INSERT OR REPLACE keyed by userId, which
\* keeps one audit row per user.
RECURSIVE CommitAudit_ReplacePerUser(_, _)
CommitAudit_ReplacePerUser(audit, t) ==
    IF t = <<>> THEN audit
    ELSE CommitAudit_ReplacePerUser(
            IF Head(t).table = "sync_audit"
            THEN Append(SelectSeq(audit, LAMBDA r : r.userId # Head(t).row.userId), Head(t).row)
            ELSE audit, Tail(t))

\* The tables after the statements of a transaction are committed.
RECURSIVE CommitAudit(_, _)
CommitAudit(audit, t) ==
    IF t = <<>> THEN audit
    ELSE CommitAudit(IF Head(t).table = "sync_audit"
                     THEN Append(audit, Head(t).row) ELSE audit, Tail(t))

RECURSIVE CommitStatus(_, _)
CommitStatus(st, t) ==
    IF t = <<>> THEN st
    ELSE CommitStatus(IF Head(t).table = "sync_status"
                      THEN UpsertStatus(st, Head(t).row) ELSE st, Tail(t))

(***************************************************************************)
(* b24_client.py: the Bitrix24 client                                      *)
(***************************************************************************)
\* _call: an error envelope (or a transport failure) raises.
CallRaises(method) == method \in crmFail

\* A bug DealsOfUser could have: the filter names a field the CRM does not
\* know, and the CRM then lists every deal.
DealsOfUser_unfiltered(user_id) == {d \in DealIds : deals[d].exists}

\* crm.deal.list with filter {UF_B24_DEAL_ABCP_USER_ID: str(user_id)}.
DealsOfUser(user_id) ==
    {d \in DealIds : /\ deals[d].exists
                     /\ deals[d].fields[UF_B24_DEAL_ABCP_USER_ID] = ToString(user_id)}

\* find_deal_by_user: the outcomes it can have.  items[0] is the first deal
\* in the order the CRM lists them, which the request does not fix.
find_deal_by_user(user_id) ==
    IF CallRaises("crm.deal.list") THEN {[raised |-> TRUE, deal |-> 0]}
    ELSE IF DealsOfUser(user_id) = {} THEN {[raised |-> FALSE, deal |-> 0]}
    ELSE {[raised |-> FALSE, deal |-> d] : d \in DealsOfUser(user_id)}

\* get_deal_fields(deal_id, uf_codes): {code: deal.get(code)}.
get_deal_fields(d, uf_codes) ==
    IF CallRaises("crm.deal.get") \/ ~deals[d].exists
    THEN [raised |-> TRUE, fields |-> EmptyDict]
    ELSE [raised |-> FALSE, fields |-> [c \in uf_codes |-> deals[d].fields[c]]]

(***************************************************************************)
(* sync_service.py                                                         *)
(***************************************************************************)
\* str(row[abcp_key]) and "row[abcp_key] in (None, '', 0)" for the columns
\* kept: id, userId and mileage are integers, dateUpdated is text.
RowStr(row, abcp_key) ==
    CASE abcp_key = "id"          -> ToString(row.id)
      [] abcp_key = "userId"      -> ToString(row.userId)
      [] abcp_key = "mileage"     -> ToString(row.mileage)
      [] abcp_key = "dateUpdated" -> row.dateUpdated

RowEmpty(row, abcp_key) ==
    CASE abcp_key = "id"          -> row.id = 0
      [] abcp_key = "userId"      -> row.userId = 0
      [] abcp_key = "mileage"     -> row.mileage = 0
      [] abcp_key = "dateUpdated" -> row.dateUpdated = ""

_overwrite_for_field(name) ==
    IF name \in DOMAIN SYNC_OVERWRITE_FIELDS
    THEN SYNC_OVERWRITE_FIELDS[name] ELSE SYNC_OVERWRITE_DEFAULT

DictSet(d, k, v) == [c \in DOMAIN d \cup {k} |-> IF c = k THEN v ELSE d[c]]

\* _build_update_fields: the loop over BITRIX_FIELD_ENV_MAP.items(), from
\* its k-th item on.  env_name is the item's VALUE, a tuple, and it is
\* handed to getenv as it is.
RECURSIVE BuildFrom(_, _, _)
BuildFrom(row, k, fields) ==
    IF k > Len(BITRIX_FIELD_ENV_MAP) THEN [raised |-> "", fields |-> fields]
    ELSE LET abcp_key == BITRIX_FIELD_ENV_MAP[k].abcp_key
             env_name == BITRIX_FIELD_ENV_MAP[k].env_name
             uf_code  == getenv(env_name, "")
         IN  IF uf_code.raised # "" THEN [raised |-> uf_code.raised, fields |-> fields]
             ELSE IF uf_code.value = "" THEN BuildFrom(row, k + 1, fields)
             ELSE IF ~_overwrite_for_field(abcp_key) /\ RowEmpty(row, abcp_key)
                  THEN BuildFrom(row, k + 1, fields)
             ELSE BuildFrom(row, k + 1, DictSet(fields, uf_code.value, RowStr(row, abcp_key)))

_build_update_fields(row) == BuildFrom(row, 1, EmptyDict)

\* A Python int among the values of a dict, and str() of a value: the
\* decimal digits of an int, a string as it is.
PyInts   == Mileages \cup {301, 404, 500}
PyInt(n) == "<int " \o ToString(n) \o ">"
str(v) ==
    IF \E n \in PyInts : v = PyInt(n)
    THEN ToString(CHOOSE n \in PyInts : v = PyInt(n))
    ELSE IF v = NoneV THEN "None" ELSE v

_normalize_identity(v) == v

\* _normalize: None and "" compare equal; everything else by its str().
_normalize(v) == IF v = NoneV THEN "" ELSE str(v)

DictGet(d, k) == IF k \in DOMAIN d THEN d[k] ELSE NoneV

_diff_fields(cur, new) ==
    [c \in {k \in DOMAIN new : _normalize(DictGet(cur, k)) # _normalize(new[k])} |-> new[c]]

\* datetime(dateUpdated), as an order on the timestamps of Times.
TimeRank(t) == CHOOSE k \in DOMAIN Times : Times[k] = t

Orderings(S) ==
    {s \in [1..Cardinality(S) -> S] : \A a, b \in DOMAIN s : a # b => s[a] # s[b]}

\* The rows of user u whose datetime(dateUpdated) is the user's maximum.
LatestOf(u) ==
    {g \in garage : /\ g.userId = u
                    /\ \A h \in garage :
                          h.userId = u => TimeRank(h.dateUpdated) <= TimeRank(g.dateUpdated)}

\* A bug _select_latest_rows_per_user could have: the restriction to one
\* user is ignored.
_select_latest_rows_per_user_all(only_user) ==
    {s \in Orderings(UNION {LatestOf(u) : u \in UserIds}) :
        \A a, b \in DOMAIN s : a < b => s[a].userId <= s[b].userId}

\* _select_latest_rows_per_user: the row lists the query can return.
\* only_user 0 stands for None (both are falsy).  One user: ORDER BY
\* datetime(dateUpdated) DESC LIMIT 1.  All users: the join on
\* MAX(datetime(dateUpdated)) keeps every row that attains the maximum,
\* ORDER BY userId (rows of one user in an order SQL does not fix).
_select_latest_rows_per_user(only_user) ==
    IF only_user # 0
    THEN IF LatestOf(only_user) = {} THEN {<<>>}
         ELSE {<<g>> : g \in LatestOf(only_user)}
    ELSE {s \in Orderings(UNION {LatestOf(u) : u \in UserIds}) :
            \A a, b \in DOMAIN s : a < b => s[a].userId <= s[b].userId}

NoArgs == [user_id |-> 0, deal_id |-> 0, source_garage_id |-> 0,
           source_date_updated |-> "", result |-> "",
           updated_field_codes |-> <<>>, error |-> ""]

\* The keyword arguments of a save_sync_result call for the current row.
SaveArgs(uid, d, result, codes, error) ==
    [user_id |-> uid, deal_id |-> d, source_garage_id |-> rows[i].id,
     source_date_updated |-> rows[i].dateUpdated, result |-> result,
     updated_field_codes |-> codes, error |-> error]

\* An entry of the history: a CRM call ("crm", the REST method; deal is the
\* deal crm.deal.list returned and snap that deal's fields then; keys are
\* the field codes crm.deal.update was sent), a committed outcome
\* ("outcome", the result) or the exception that left sync_all ("raised",
\* the call that raised; keys are the tables written in the transaction
\* that was rolled back), made for row k.
Event(kind, what) ==
    [k |-> i, kind |-> kind, what |-> what, keys |-> {}, deal |-> 0, snap |-> EmptyDict]

\* sync_all, lines 154-159: select the rows, zero the counters.
sync_all_start(user_id) ==
    /\ pc = "reconcile" /\ ~args.only_store
    /\ sync_all_user_id' = user_id
    /\ \E sel \in _select_latest_rows_per_user(user_id) : rows' = sel
    /\ i' = 1
    /\ ok' = 0 /\ skipped' = 0 /\ errors' = 0
    /\ events' = <<>>
    /\ pc' = "loop"
    /\ UNCHANGED <<dbVars, crmVars, fetchVars, rowVars, saveArgs, saveInTry>>

\* A bug row_without_userId could have: the row is looked up in the CRM like
\* any other and recorded as a customer without a deal.
row_without_userId_lookup ==
    /\ pc = "loop" /\ i <= Len(rows)
    /\ rows[i].userId = 0
    /\ events' = Append(events, Event("crm", "crm.deal.list"))
    /\ skipped' = skipped + 1
    /\ saveArgs' = SaveArgs(0, 0, "skipped", <<>>, "deal not found")
    /\ saveInTry' = FALSE
    /\ pc' = "save_audit"
    /\ UNCHANGED <<dbVars, crmVars, fetchVars, sync_all_user_id, rows, i, ok, errors, rowVars>>

\* lines 162-179: a row whose userId is None or 0.
row_without_userId ==
    /\ pc = "loop" /\ i <= Len(rows)
    /\ rows[i].userId = 0
    /\ skipped' = skipped + 1
    /\ saveArgs' = SaveArgs(0, 0, "skipped", <<>>, "row without userId")
    /\ saveInTry' = FALSE
    /\ pc' = "save_audit"
    /\ UNCHANGED <<dbVars, crmVars, fetchVars, sync_all_user_id, rows, i, ok, errors, rowVars, events>>

\* A bug FoundOrSkipped could have: "continue" without save_sync_result.
FoundOrSkipped_NoSave(deal) ==
    IF deal = 0
    THEN /\ skipped' = skipped + 1
         /\ i' = i + 1
         /\ pc' = "loop"
         /\ UNCHANGED <<deal_id, errors, saveArgs, saveInTry>>
    ELSE /\ deal_id' = deal
         /\ pc' = "build"
         /\ UNCHANGED <<skipped, errors, saveArgs, saveInTry, i>>

\* A bug FoundOrSkipped could have: no deal counted and recorded as an error.
FoundOrSkipped_AsError(deal) ==
    IF deal = 0
    THEN /\ errors' = errors + 1
         /\ saveArgs' = SaveArgs(rows[i].userId, 0, "error", <<>>, "deal not found")
         /\ saveInTry' = FALSE
         /\ pc' = "save_audit"
         /\ UNCHANGED <<deal_id, i, skipped>>
    ELSE /\ deal_id' = deal
         /\ pc' = "build"
         /\ UNCHANGED <<skipped, errors, saveArgs, saveInTry, i>>

\* lines 188-206: no deal is counted as skipped and recorded with
\* "deal not found"; a deal goes on to _build_update_fields.
FoundOrSkipped(deal) ==
    IF deal = 0
    THEN /\ skipped' = skipped + 1
         /\ saveArgs' = SaveArgs(rows[i].userId, 0, "skipped", <<>>, "deal not found")
         /\ saveInTry' = FALSE
         /\ pc' = "save_audit"
         /\ UNCHANGED <<deal_id, i, errors>>
    ELSE /\ deal_id' = deal
         /\ pc' = "build"
         /\ UNCHANGED <<skipped, errors, saveArgs, saveInTry, i>>

\* lines 187-206: the deal lookup, outside any try block.
find_deal ==
    /\ pc = "loop" /\ i <= Len(rows)
    /\ rows[i].userId # 0
    /\ \E r \in find_deal_by_user(rows[i].userId) :
         IF r.raised
         THEN /\ pc' = "raised"
              /\ events' = events \o <<Event("crm", "crm.deal.list"),
                                        Event("raised", "find_deal_by_user")>>
              /\ UNCHANGED <<skipped, errors, saveArgs, saveInTry, deal_id, i>>
         ELSE /\ events' = Append(events, [Event("crm", "crm.deal.list") EXCEPT
                                            !.deal = r.deal,
                                            !.snap = IF r.deal = 0 THEN EmptyDict
                                                     ELSE deals[r.deal].fields])
              /\ FoundOrSkipped(r.deal)
    /\ UNCHANGED <<dbVars, crmVars, fetchVars, sync_all_user_id, rows, ok, new_fields, current, diff>>

\* lines 209-210: new_fields = _build_update_fields(row), outside any try
\* block: an exception raised there leaves sync_all.
build_fields ==
    /\ pc = "build"
    /\ LET r == _build_update_fields(rows[i])
       IN  IF r.raised # ""
           THEN /\ pc' = "raised"
                /\ events' = Append(events, Event("raised", "_build_update_fields"))
                /\ UNCHANGED new_fields
           ELSE /\ pc' = "read"
                /\ new_fields' = r.fields
                /\ UNCHANGED events
    /\ UNCHANGED <<dbVars, crmVars, fetchVars, sync_all_user_id, rows, i, cntVars, deal_id, current,
                   diff, saveArgs, saveInTry>>

\* line 292: the loop is over.
sync_all_return ==
    /\ pc = "loop" /\ i > Len(rows)
    /\ pc' = "returned"
    /\ UNCHANGED <<dbVars, crmVars, fetchVars, sync_all_user_id, rows, i, cntVars, rowVars,
                   saveArgs, saveInTry, events>>

(***************************************************************************)
(* db.py: save_sync_result, statement by statement                        *)
(***************************************************************************)
\* A bug save_audit_insert could have: a connection in autocommit mode
\* (isolation_level=None), where the INSERT is durable at once.
save_audit_insert_autocommit ==
    /\ pc = "save_audit"
    /\ sync_audit' = Append(sync_audit, AuditRow(saveArgs))
    /\ pc' = "save_status"
    /\ UNCHANGED <<garage, sync_status, tx, crmVars, fetchVars, sync_all_user_id, rows, i,
                   cntVars, rowVars, saveArgs, saveInTry, events>>

\* lines 263-280: INSERT INTO sync_audit, inside the open transaction.
save_audit_insert ==
    /\ pc = "save_audit"
    /\ tx' = Append(tx, [table |-> "sync_audit", row |-> AuditRow(saveArgs)])
    /\ pc' = "save_status"
    /\ UNCHANGED <<garage, sync_status, sync_audit, crmVars, fetchVars, sync_all_user_id, rows, i,
                   cntVars, rowVars, saveArgs, saveInTry, events>>

\* lines 283-309: the sync_status upsert, inside the same transaction.
save_status_upsert ==
    /\ pc = "save_status"
    /\ tx' = Append(tx, [table |-> "sync_status", row |-> StatusRow(saveArgs)])
    /\ pc' = "save_commit"
    /\ UNCHANGED <<garage, sync_status, sync_audit, crmVars, fetchVars, sync_all_user_id, rows, i,
                   cntVars, rowVars, saveArgs, saveInTry, events>>

\* line 310: commit; save_sync_result returns and sync_all goes to the
\* next row (every call is followed by continue or by the end of the body).
save_commit ==
    /\ pc = "save_commit"
    /\ sync_audit' = CommitAudit(sync_audit, tx)
    /\ sync_status' = CommitStatus(sync_status, tx)
    /\ tx' = <<>>
    /\ events' = Append(events, Event("outcome", saveArgs.result))
    /\ i' = i + 1
    /\ pc' = "loop"
    /\ deal_id' = 0 /\ new_fields' = EmptyDict /\ current' = EmptyDict /\ diff' = EmptyDict
    /\ saveArgs' = NoArgs /\ saveInTry' = FALSE
    /\ UNCHANGED <<garage, crmVars, fetchVars, sync_all_user_id, rows, cntVars>>

\* lines 314-319: a statement or the commit raises; the connection's context
\* manager rolls back and save_sync_result re-raises.  Inside the try block
\* of lines 256-273 the except branch of lines 274-285 catches it;
\* anywhere else the exception leaves sync_all.
save_raises ==
    /\ pc \in {"save_audit", "save_status", "save_commit"}
    /\ tx' = <<>>
    /\ IF saveInTry
       THEN /\ errors' = errors + 1
            /\ saveArgs' = [saveArgs EXCEPT !.result = "error",
                                            !.updated_field_codes = KeyList(diff),
                                            !.error = "sqlite3.OperationalError"]
            /\ saveInTry' = FALSE
            /\ pc' = "save_audit"
            /\ UNCHANGED events
       ELSE /\ pc' = "raised"
            /\ events' = Append(events, [Event("raised", "save_sync_result") EXCEPT
                                            !.keys = {t.table : t \in Range(tx)}])
            /\ UNCHANGED <<errors, saveArgs, saveInTry>>
    /\ UNCHANGED <<garage, sync_status, sync_audit, crmVars, fetchVars, sync_all_user_id, rows, i,
                   ok, skipped, rowVars>>

(***************************************************************************)
(* b24_client.py: update_deal_fields                                       *)
(***************************************************************************)
\* B24_TZ_OFFSET (config.py), the default.
DEFAULT_TZ_OFFSET == "+03:00"

\* USER_TYPE_ID of the deal's user fields, as crm.deal.userfield.list
\* reports them: the four fields the mapping fills, and one field of each
\* other type ("" for a field the CRM reports no metadata for).
UserTypeId ==
    [ UF_CRM_GUSER   |-> "string",
      UF_CRM_ABCP    |-> "string",
      UF_CRM_MILEAGE |-> "integer",
      UF_CRM_DATE    |-> "datetime",
      UF_CRM_DAY     |-> "date",
      UF_CRM_FLAG    |-> "boolean",
      UF_CRM_PRICE   |-> "double",
      UF_CRM_KIND    |-> "enumeration",
      UF_CRM_NOTE    |-> "" ]

\* The strings of Times matched by (\d{4}-\d{2}-\d{2})[ T](\d{2}:\d{2}:\d{2}),
\* with the two groups of the match.
BareDateTime ==
    [ s \in Range(Times) |->
        IF s = Times[1] THEN <<"2024-05-01", "10:00:00">>
                        ELSE <<"2025-02-03", "08:30:00">> ]

\* A datetime.date and a naive datetime.datetime among the values.
PyDate(d)        == "<date " \o d \o ">"
PyDatetime(d, t) == "<datetime " \o d \o " " \o t \o ">"

\* The values that denote the instant of a string of Times, with what
\* _ensure_datetime_str's isinstance tests and regular expressions find
\* in each: a date object, a naive datetime object, a bare date, a bare
\* date-time (with a space or a T), a date-time with Z or with an offset.
DatetimeFormsOf(s) ==
    LET d == BareDateTime[s][1]
        t == BareDateTime[s][2]
    IN  { [v |-> PyDate(d),                  kind |-> "date",          date |-> d, time |-> "00:00:00"],
          [v |-> PyDatetime(d, t),           kind |-> "datetime",      date |-> d, time |-> t],
          [v |-> d,                          kind |-> "bare_date",     date |-> d, time |-> "00:00:00"],
          [v |-> s,                          kind |-> "bare_datetime", date |-> d, time |-> t],
          [v |-> d \o "T" \o t,              kind |-> "bare_datetime", date |-> d, time |-> t],
          [v |-> d \o "T" \o t \o "Z",       kind |-> "offset",        date |-> d, time |-> t],
          [v |-> d \o "T" \o t \o "+05:00",  kind |-> "offset",        date |-> d, time |-> t] }
DatetimeForms == UNION {DatetimeFormsOf(s) : s \in Range(Times)}
IsDatetimeForm(v) == \E f \in DatetimeForms : f.v = v
DatetimeForm(v)   == CHOOSE f \in DatetimeForms : f.v = v

\* The texts matched by ([+-])(\d{2}):?(\d{2}), with the offset that
\* isoformat() prints for the timezone made of the groups.
OffsetTexts == [o \in {"+03:00", "+0500", "-02:30"} |-> IF o = "+0500" THEN "+05:00" ELSE o]

\* _tz_from_offset(offset), as isoformat() prints the timezone: an invalid
\* text gives _FALLBACK_TZ, +03:00.
_tz_from_offset(offset) ==
    LET o == IF offset # "" THEN offset
             ELSE IF DEFAULT_TZ_OFFSET # "" THEN DEFAULT_TZ_OFFSET ELSE "+03:00"
    IN  IF o \in DOMAIN OffsetTexts THEN OffsetTexts[o] ELSE "+03:00"

\* _ensure_datetime_str: None and "" give ""; a date or naive datetime
\* object gets the timezone of _tz_from_offset; a string that carries an
\* offset is returned as it is; a bare date-time or date string gets "T"
\* and the text fallback_offset; anything else is returned as a string.
_ensure_datetime_str(v, fallback_offset) ==
    IF v = NoneV \/ v = "" THEN ""
    ELSE IF ~IsDatetimeForm(v) THEN str(v)
    ELSE LET f == DatetimeForm(v)
         IN  CASE f.kind \in {"date", "datetime"} ->
                      f.date \o "T" \o f.time \o _tz_from_offset(fallback_offset)
               [] f.kind = "offset" -> v
               [] f.kind \in {"bare_datetime", "bare_date"} ->
                      f.date \o "T" \o f.time \o fallback_offset

\* _ensure_date_str: None and "" give ""; a date or datetime object and a
\* date-time string give the date; anything else is returned as a string.
_ensure_date_str(v) ==
    IF v = NoneV \/ v = "" THEN ""
    ELSE IF IsDatetimeForm(v) THEN DatetimeForm(v).date
    ELSE str(v)

\* _to_bool_y_n: the strings for yes and for no, a number by v != 0, and
\* "Y" for everything else.
_to_bool_y_n(v) ==
    IF v \in {"y", "yes", "true", "1"} THEN "Y"
    ELSE IF v \in {"n", "no", "false", "0"} THEN "N"
    ELSE IF \E n \in PyInts : v = PyInt(n) THEN (IF v = PyInt(0) THEN "N" ELSE "Y")
    ELSE "Y"

\* A Python float with an integral value.
PyFloat(n) == "<float " \o ToString(n) \o ".0>"

\* _ensure_numeric: None and "" give ""; int(str(v).strip()) for an
\* integer field and float(...) for a double field; a value the conversion
\* raises on is returned as it is.
_ensure_numeric(utype, v) ==
    IF v = NoneV \/ v = "" THEN ""
    ELSE IF \E n \in PyInts : str(v) = ToString(n)
    THEN LET n == CHOOSE n \in PyInts : str(v) = ToString(n)
         IN  CASE utype = "integer" -> PyInt(n)
               [] utype = "double"  -> PyFloat(n)
               [] OTHER             -> v
    ELSE v

\* _ensure_enum_ids for a field that is not MULTIPLE and has no LIST: ""
\* stays "", a string of digits becomes the int, anything else is left.
_ensure_enum_ids(v) ==
    IF v = "" THEN ""
    ELSE IF \E n \in PyInts : v = ToString(n) THEN PyInt(CHOOSE n \in PyInts : v = ToString(n))
    ELSE v

\* _normalize_fields_for_update, lines 257-268: the value sent for a field
\* whose metadata reports the type utype ("" without metadata).
NormalizedAs(utype, v) ==
    CASE utype = "datetime" -> _ensure_datetime_str(v, DEFAULT_TZ_OFFSET)
      [] utype = "date"     -> _ensure_date_str(v)
      [] utype = "boolean"  -> _to_bool_y_n(v)
      [] utype \in {"integer", "double"} -> _ensure_numeric(utype, v)
      [] utype = "enumeration" -> _ensure_enum_ids(v)
      [] OTHER              -> v

\* _normalize_fields_for_update, when the CRM reports the metadata of
\* every field.
_normalize_fields_for_update(fields) ==
    [k \in DOMAIN fields |->
        IF fields[k] = NoneV THEN "" ELSE NormalizedAs(UserTypeId[k], fields[k])]

\* crm.deal.update: the deal stores the fields it is sent.
DealUpdated(d, norm_fields) ==
    [deals EXCEPT ![d].fields =
        [c \in Codes |-> IF c \in DOMAIN norm_fields THEN norm_fields[c] ELSE @[c]]]

(***************************************************************************)
(* sync_all, lines 213-289: the part after _build_update_fields            *)
(***************************************************************************)
\* lines 214-253: read the current values, diff, and skip when nothing
\* differs.
read_and_diff ==
    /\ pc = "read"
    /\ events' = Append(events, Event("crm", "crm.deal.get"))
    /\ LET r == get_deal_fields(deal_id, DOMAIN new_fields)
           d == _diff_fields(r.fields, new_fields)
       IN  IF r.raised
           THEN /\ errors' = errors + 1
                /\ saveArgs' = SaveArgs(rows[i].userId, deal_id, "error", KeyList(new_fields),
                                        "get_deal_fields failed: RuntimeError")
                /\ saveInTry' = FALSE
                /\ pc' = "save_audit"
                /\ UNCHANGED <<skipped, current, diff>>
           ELSE /\ current' = r.fields
                /\ diff' = d
                /\ IF DOMAIN d = {}
                   THEN /\ skipped' = skipped + 1
                        /\ saveArgs' = SaveArgs(rows[i].userId, deal_id, "skipped", <<>>, "")
                        /\ saveInTry' = FALSE
                        /\ pc' = "save_audit"
                   ELSE /\ pc' = "update"
                        /\ UNCHANGED <<skipped, saveArgs, saveInTry>>
                /\ UNCHANGED errors
    /\ UNCHANGED <<dbVars, crmVars, fetchVars, sync_all_user_id, rows, i, ok, deal_id, new_fields>>

\* lines 256-285: update_deal_fields(deal_id, diff) inside the try block.
\* update_deal_fields normalizes, reads the fields before (a failure there
\* is only logged), calls crm.deal.update and reads the fields again.
update_deal ==
    /\ pc = "update"
    /\ LET norm_fields == _normalize_fields_for_update(diff)
       IN  IF CallRaises("crm.deal.update")
           THEN /\ events' = events \o <<Event("crm", "crm.deal.get"),
                                         [Event("crm", "crm.deal.update") EXCEPT !.keys = DOMAIN norm_fields]>>
                /\ errors' = errors + 1
                /\ saveArgs' = SaveArgs(rows[i].userId, deal_id, "error", KeyList(diff),
                                        "RuntimeError")
                /\ saveInTry' = FALSE
                /\ UNCHANGED <<deals, ok>>
           ELSE /\ events' = events \o <<Event("crm", "crm.deal.get"),
                                         [Event("crm", "crm.deal.update") EXCEPT !.keys = DOMAIN norm_fields],
                                         Event("crm", "crm.deal.get")>>
                /\ deals' = DealUpdated(deal_id, norm_fields)
                /\ ok' = ok + 1
                /\ saveArgs' = SaveArgs(rows[i].userId, deal_id, "updated", KeyList(diff), "")
                /\ saveInTry' = TRUE
                /\ UNCHANGED errors
    /\ pc' = "save_audit"
    /\ UNCHANGED <<dbVars, crmFail, fetchVars, sync_all_user_id, rows, i, skipped, rowVars>>

(***************************************************************************)
(* _build_update_fields as tests/test_sync_service.py requires it          *)
(***************************************************************************)
\* The test expects one entry for every environment name of the tuple that
\* is set ("UF_CODE_USER_1" and "UF_CODE_USER_2" both carry "555"): the
\* inner loop over the names of one attribute.
RECURSIVE ExpectedNames(_, _, _, _)
ExpectedNames(row, abcp_key, names, fields) ==
    IF names = <<>> THEN fields
    ELSE LET uf_code == getenv(PyStr(Head(names)), "").value
         IN  IF uf_code = "" \/ (~_overwrite_for_field(abcp_key) /\ RowEmpty(row, abcp_key))
             THEN ExpectedNames(row, abcp_key, Tail(names), fields)
             ELSE ExpectedNames(row, abcp_key, Tail(names),
                                DictSet(fields, uf_code, RowStr(row, abcp_key)))

RECURSIVE ExpectedFrom(_, _, _)
ExpectedFrom(row, k, fields) ==
    IF k > Len(BITRIX_FIELD_ENV_MAP) THEN fields
    ELSE ExpectedFrom(row, k + 1,
            ExpectedNames(row, BITRIX_FIELD_ENV_MAP[k].abcp_key,
                          BITRIX_FIELD_ENV_MAP[k].env_name.items, fields))

ExpectedUpdateFields(row) == ExpectedFrom(row, 1, EmptyDict)

\* lines 209-210 with _build_update_fields returning what the test expects.
build_fields_expected ==
    /\ pc = "build"
    /\ new_fields' = ExpectedUpdateFields(rows[i])
    /\ pc' = "read"
    /\ UNCHANGED <<dbVars, crmVars, fetchVars, sync_all_user_id, rows, i, cntVars, deal_id, current,
                   diff, saveArgs, saveInTry, events>>

(***************************************************************************)
(* The initial state and the specifications                                *)
(***************************************************************************)
FreshFields(link) == [c \in Codes |-> IF c = UF_B24_DEAL_ABCP_USER_ID THEN link ELSE NoneV]

\* A deal of customer 1 that holds the candidate strings of a record with
\* mileage 7 updated at Times[2], and one that holds what crm.deal.update
\* is sent for them.
RawFields  == [ UF_CRM_GUSER |-> "1", UF_CRM_ABCP |-> "1",
                UF_CRM_MILEAGE |-> "7", UF_CRM_DATE |-> Times[2] ]
SentFields == _normalize_fields_for_update(RawFields)

NoDeal == [exists |-> FALSE, fields |-> FreshFields("")]

DealInit ==
    { d \in [DealIds -> {NoDeal} \cup [exists : {TRUE},
                                       fields : {FreshFields("1"), FreshFields("2"),
                                                 RawFields, SentFields}]] :
        /\ d[11] = NoDeal \/ d[11].fields[UF_B24_DEAL_ABCP_USER_ID] = "1"
        /\ d[12] = NoDeal \/ d[12].fields \in {FreshFields("1"), FreshFields("2")} }

CrmFailInit == {{}, {"crm.deal.list"}, {"crm.deal.get"}, {"crm.deal.update"}}

\* The arguments of a run: --only-store and --only-sync, set or not.
ArgsInit == [only_store : BOOLEAN, only_sync : BOOLEAN]

\* The records ABCP holds in the runs that exercise the fetch stage: two
\* cars in every version that has mileage 0, and the malformed records.
FetchCars ==
    [id : GarageIds, userId : UserIds, dateUpdated : Range(Times), mileage : {0}]
    \cup MalformedCars

\* ABCP: whether the credentials are configured, the years whose request
\* fails, and the records it holds.
AbcpInit == [creds : BOOLEAN, down : SUBSET Range(YearSlices(MaxSlices)), cars : {FetchCars}]

\* The user fields the CRM defines on deals, and b24_client before its first
\* call: nothing cached, update_deal_fields not called, no request pending.
AllUserFields == DOMAIN UserTypeId
NoCache == <<>>
Cached(mp) == <<mp>>
NoUdf == [fields |-> EmptyDict, norm_fields |-> EmptyDict, before |-> EmptyDict,
          after |-> EmptyDict, not_applied |-> <<>>, diag |-> 0, ret |-> ""]
B24Init ==
    /\ uf_cache = NoCache
    /\ userfields = AllUserFields
    /\ udf = NoUdf
    /\ net = <<>>

\* The empty store, and the locals of _execute_sync and sync_all before the
\* run.
StoreInit ==
    /\ garage = {}
    /\ sync_status = [u \in {} |-> NoArgs]
    /\ sync_audit = <<>>
    /\ tx = <<>>

LocalsInit ==
    /\ slice_i = 0
    /\ payload = <<>>
    /\ fetchLog = <<>>
    /\ sync_all_user_id = 0
    /\ rows = <<>>
    /\ i = 0
    /\ ok = 0 /\ skipped = 0 /\ errors = 0
    /\ deal_id = 0
    /\ new_fields = EmptyDict /\ current = EmptyDict /\ diff = EmptyDict
    /\ saveArgs = NoArgs
    /\ saveInTry = FALSE
    /\ events = <<>>
    /\ iteration = 1 /\ sleeps = 0
    /\ B24Init

\* A run over a working ABCP that holds well-formed records, one slice,
\* every state of the CRM.
Init ==
    /\ StoreInit
    /\ deals \in DealInit
    /\ crmFail \in CrmFailInit
    /\ pc = "start"
    /\ args \in ArgsInit
    /\ slices = YearSlices(1)
    /\ abcp = [creds |-> TRUE, down |-> {}, cars |-> Cars]
    /\ LocalsInit

\* The program as it is in src/.
Next ==
    \/ init_db
    \/ fetch_slice
    \/ fetch_finished
    \/ execute_sync_done
    \/ \E user_id \in UserIds : sync_all_start(user_id)
    \/ row_without_userId
    \/ find_deal
    \/ build_fields
    \/ sync_all_return
    \/ save_audit_insert
    \/ save_status_upsert
    \/ save_commit
    \/ save_raises

Spec == Init /\ [][Next]_vars

\* Runs that exercise the fetch stage: up to MaxSlices slices, ABCP with or
\* without credentials, failing for some years, holding malformed records
\* too; the CRM works and holds one deal, of customer 1.
InitFetch ==
    /\ StoreInit
    /\ deals = [d \in DealIds |-> IF d = 11 THEN [exists |-> TRUE, fields |-> FreshFields("1")]
                                            ELSE NoDeal]
    /\ crmFail = {}
    /\ pc = "start"
    /\ args \in ArgsInit
    /\ slices \in {YearSlices(n) : n \in 0..MaxSlices}
    /\ abcp \in AbcpInit
    /\ LocalsInit

SpecFetch == InitFetch /\ [][Next]_vars

\* A run over a database that earlier runs have filled: a stored record
\* and an outcome for customer 1 and for customer 2.  Customer 1 has a
\* deal, customer 2 has none; ABCP holds newer versions of the records.
PriorArgs(u, g) ==
    [user_id |-> u, deal_id |-> 0, source_garage_id |-> g,
     source_date_updated |-> Times[1], result |-> "skipped",
     updated_field_codes |-> <<>>, error |-> "deal not found"]

PriorGarage ==
    { [id |-> 1, userId |-> 1, dateUpdated |-> Times[1], mileage |-> 7],
      [id |-> 2, userId |-> 2, dateUpdated |-> Times[1], mileage |-> 0] }

PriorStatus == [u \in {1, 2} |-> StatusRow(PriorArgs(u, u))]
PriorAudit  == <<AuditRow(PriorArgs(1, 1)), AuditRow(PriorArgs(2, 2))>>

RerunCars == [id : GarageIds, userId : UserIds, dateUpdated : {Times[2]}, mileage : {0}]

InitRerun ==
    /\ garage = PriorGarage
    /\ sync_status = PriorStatus
    /\ sync_audit = PriorAudit
    /\ tx = <<>>
    /\ deals = [d \in DealIds |-> IF d = 11 THEN [exists |-> TRUE, fields |-> FreshFields("1")]
                                   ELSE NoDeal]
    /\ crmFail \in {{}, {"crm.deal.list"}}
    /\ pc = "start"
    /\ args \in ArgsInit
    /\ slices = YearSlices(1)
    /\ abcp = [creds |-> TRUE, down |-> {}, cars |-> RerunCars]
    /\ LocalsInit

SpecRerun == InitRerun /\ [][Next]_vars

\* The program with _build_update_fields repaired to what its test expects.
NextRepaired ==
    \/ init_db
    \/ fetch_slice
    \/ fetch_finished
    \/ execute_sync_done
    \/ \E user_id \in UserIds : sync_all_start(user_id)
    \/ row_without_userId
    \/ find_deal
    \/ build_fields_expected
    \/ read_and_diff
    \/ update_deal
    \/ sync_all_return
    \/ save_audit_insert
    \/ save_status_upsert
    \/ save_commit
    \/ save_raises

SpecRepaired == Init /\ [][NextRepaired]_vars

(***************************************************************************)
(* _diff_fields applied to two given dicts                                 *)
(***************************************************************************)
\* The dicts _diff_fields can be handed: some of two codes, each with None,
\* an empty string, a string or an int.
DiffCodes  == {"UF_CRM_MILEAGE", "UF_CRM_DATE"}
DiffValues == {NoneV, "", "7", "8"} \cup {PyInt(n) : n \in Mileages}
DiffDicts  == UNION {[ks -> DiffValues] : ks \in SUBSET DiffCodes}

\* diff = _diff_fields(current, new_fields)
diff_fields_call ==
    /\ pc = "diff_call"
    /\ diff' = _diff_fields(current, new_fields)
    /\ pc' = "diff_return"
    /\ UNCHANGED <<dbVars, crmVars, fetchVars, sync_all_user_id, rows, i, cntVars, deal_id,
                   new_fields, current, saveArgs, saveInTry, events>>

InitDiff ==
    /\ StoreInit
    /\ deals \in DealInit
    /\ crmFail = {}
    /\ pc = "diff_call"
    /\ args = [only_store |-> FALSE, only_sync |-> TRUE]
    /\ slices = <<>>
    /\ abcp = [creds |-> TRUE, down |-> {}, cars |-> Cars]
    /\ slice_i = 0
    /\ payload = <<>>
    /\ fetchLog = <<>>
    /\ sync_all_user_id = 0
    /\ rows = <<>>
    /\ i = 0
    /\ ok = 0 /\ skipped = 0 /\ errors = 0
    /\ deal_id = 0
    /\ new_fields \in DiffDicts
    /\ current \in DiffDicts
    /\ diff = EmptyDict
    /\ saveArgs = NoArgs
    /\ saveInTry = FALSE
    /\ events = <<>>
    /\ iteration = 1 /\ sleeps = 0
    /\ B24Init

NextDiff == diff_fields_call

SpecDiff == InitDiff /\ [][NextDiff]_vars

(***************************************************************************)
(* slice_by_years applied to a given period                                *)
(***************************************************************************)
\* The datetimes --from and --to are drawn from (parse_dt): in each of
\* MaxYears years the first seconds, two days within the year and the last
\* seconds, and half a second after the first, a middle and the last second.
MaxYears == 3
Instants ==
    UNION { { datetime(y, 1, 1, 0, 0, 0), datetime(y, 1, 1, 0, 0, 1), datetime(y, 1, 1, 0, 0, 2),
              datetime(y, 3, 10, 0, 0, 0), datetime(y, 6, 15, 0, 0, 0),
              datetime(y, 12, 31, 23, 59, 58), datetime(y, 12, 31, 23, 59, 59),
              fromisoformat(y, 1, 1, 0, 0, 0, 500000),
              fromisoformat(y, 6, 15, 0, 0, 0, 500000),
              fromisoformat(y, 12, 31, 23, 59, 59, 500000) } :
            y \in FirstYear..(FirstYear + MaxYears - 1) }

\* slices = slice_by_years(dt_from, dt_to)
slice_by_years_call ==
    /\ pc = "slice_call"
    /\ slices' = slice_by_years(args.dt_from, args.dt_to)
    /\ pc' = "slice_return"
    /\ UNCHANGED <<dbVars, crmVars, args, abcp, mainVars, b24Vars, slice_i, payload, fetchLog,
                   syncVars>>

InitSlices ==
    /\ StoreInit
    /\ deals = [d \in DealIds |-> NoDeal]
    /\ crmFail = {}
    /\ pc = "slice_call"
    /\ args \in [only_store : {FALSE}, only_sync : {FALSE}, dt_from : Instants, dt_to : Instants]
    /\ slices = <<>>
    /\ abcp = [creds |-> TRUE, down |-> {}, cars |-> Cars]
    /\ LocalsInit

NextSlices == slice_by_years_call

SpecSlices == InitSlices /\ [][NextSlices]_vars

(***************************************************************************)
(* _normalize_fields_for_update and _ensure_datetime_str applied to given  *)
(* fields                                                                  *)
(***************************************************************************)
\* The values of a field handed to update_deal_fields, and the dicts of
\* one field of any type.
NormValues ==
    {NoneV, "", "yes", "0", "7", "abc", PyInt(0), PyInt(7)}
        \cup {f.v : f \in DatetimeFormsOf(Times[1])}
NormDicts == UNION {[{k} -> NormValues] : k \in DOMAIN UserTypeId}

\* B24_TZ_OFFSET as the environment may set it: valid texts, and texts
\* that ([+-])(\d{2}):?(\d{2}) does not match.
TzOffsets == DOMAIN OffsetTexts \cup {"bad", "+3", "03:00"}

\* update_deal_fields, line "norm_fields = _normalize_fields_for_update(fields)":
\* current stands for what the deal is sent.
normalize_call ==
    /\ pc = "norm_call"
    /\ current' = _normalize_fields_for_update(diff)
    /\ pc' = "norm_return"
    /\ UNCHANGED <<dbVars, crmVars, fetchVars, sync_all_user_id, rows, i, cntVars, deal_id,
                   new_fields, diff, saveArgs, saveInTry, events>>

\* _ensure_datetime_str(v, DEFAULT_TZ_OFFSET) for a datetime field, with
\* DEFAULT_TZ_OFFSET = B24_TZ_OFFSET as set in the environment.
ensure_datetime_call ==
    /\ pc = "norm_call"
    /\ \A k \in DOMAIN diff : UserTypeId[k] = "datetime" /\ diff[k] # NoneV
    /\ current' = [k \in DOMAIN diff |-> _ensure_datetime_str(diff[k], args.B24_TZ_OFFSET)]
    /\ pc' = "datetime_return"
    /\ UNCHANGED <<dbVars, crmVars, fetchVars, sync_all_user_id, rows, i, cntVars, deal_id,
                   new_fields, diff, saveArgs, saveInTry, events>>

InitNorm ==
    /\ StoreInit
    /\ deals = [d \in DealIds |-> NoDeal]
    /\ crmFail = {}
    /\ pc = "norm_call"
    /\ args \in [only_store : {FALSE}, only_sync : {TRUE}, B24_TZ_OFFSET : TzOffsets]
    /\ slices = <<>>
    /\ abcp = [creds |-> TRUE, down |-> {}, cars |-> Cars]
    /\ slice_i = 0
    /\ payload = <<>>
    /\ fetchLog = <<>>
    /\ sync_all_user_id = 0
    /\ rows = <<>>
    /\ i = 0
    /\ ok = 0 /\ skipped = 0 /\ errors = 0
    /\ deal_id = 11
    /\ new_fields = EmptyDict
    /\ current = EmptyDict
    /\ diff \in NormDicts
    /\ saveArgs = NoArgs
    /\ saveInTry = FALSE
    /\ events = <<>>
    /\ iteration = 1 /\ sleeps = 0
    /\ B24Init

NextNorm ==
    \/ normalize_call
    \/ ensure_datetime_call

SpecNorm == InitNorm /\ [][NextNorm]_vars

(***************************************************************************)
(* abcp_client.py: fetch_garage over the responses of the candidate URLs   *)
(***************************************************************************)
\* The body of a response: whether r.json() parses it, the errorCode of
\* the parsed dict (None when it has none or nothing was parsed), whether
\* the not-found phrase is in the errorMessage, or without one in the
\* text, and the cars of the parsed dict.
Body(json, errorCode, phrase, cars) ==
    [json |-> json, errorCode |-> errorCode, phrase |-> phrase, cars |-> cars]

Bodies ==
    { Body(FALSE, NoneV, FALSE, <<>>),        \* text that is no JSON
      Body(FALSE, NoneV, TRUE, <<>>),         \* an error page that says "Not Found"
      Body(TRUE, PyInt(301), TRUE, <<>>),     \* {"errorCode":301,"errorMessage":"Автомобили не найдены"}
      Body(TRUE, "404", FALSE, <<>>),         \* {"errorCode":"404"}
      Body(TRUE, PyInt(500), FALSE, <<>>),    \* {"errorCode":500,"errorMessage":"Internal error"}
      Body(TRUE, NoneV, TRUE, <<>>),          \* {"errorMessage":"Not found"}
      Body(TRUE, NoneV, FALSE, <<>>),         \* {}
      Body(TRUE, NoneV, FALSE,                \* {"1":[car]}
           <<[id |-> 1, userId |-> 1, dateUpdated |-> Times[1], mileage |-> 0]>>) }

Statuses  == {200, 204, 302, 404, 500}
Responses == [status : Statuses, body : Bodies]

\* _candidate_urls(base): base, base + "/", base + "/list".
CandidateUrls == <<"", "/", "/list">>

\* A bug _is_empty_not_found could have: every 404 is an empty result.
_is_empty_not_found_by_status(status_code, body) == status_code = 404

\* _is_empty_not_found(status_code, data, text)
_is_empty_not_found(status_code, body) ==
    /\ status_code = 404
    /\ \/ str(body.errorCode) \in {"301", "404"}
       \/ body.phrase

\* Response.raise_for_status(): raises for 400 <= status_code < 600.
RaiseForStatusRaises(status_code) == 400 <= status_code /\ status_code < 600

\* lines 163-240: the loop over the candidate URLs from the k-th on, where
\* the k-th URL answers responses[k].  returned is "empty" for {}, "body"
\* for the parsed body; tried counts the requests made.
RECURSIVE FetchLoop(_, _)
FetchLoop(responses, k) ==
    IF k > Len(CandidateUrls)
    THEN [raised |-> "requests.HTTPError", returned |-> "", tried |-> k - 1]
    ELSE LET r == responses[k]
         IN  IF r.status = 200
             THEN IF ~r.body.json
                  THEN [raised |-> "JSONDecodeError", returned |-> "", tried |-> k]
                  ELSE IF str(r.body.errorCode) \in {"301", "404"}
                  THEN [raised |-> "", returned |-> "empty", tried |-> k]
                  ELSE IF r.body = Body(TRUE, NoneV, FALSE, <<>>)
                  THEN [raised |-> "", returned |-> "empty", tried |-> k]
                  ELSE [raised |-> "", returned |-> "body", tried |-> k]
             ELSE IF _is_empty_not_found(r.status, r.body)
                  THEN [raised |-> "", returned |-> "empty", tried |-> k]
             ELSE IF r.status \notin {404, 301, 302} /\ RaiseForStatusRaises(r.status)
                  THEN [raised |-> "requests.HTTPError", returned |-> "", tried |-> k]
             ELSE FetchLoop(responses, k + 1)

\* payload = fetch_garage(start, end), with the credentials present.
fetch_garage_call ==
    /\ pc = "fetch_call"
    /\ LET res == FetchLoop(abcp.responses, 1)
       IN  /\ fetchLog' = <<res>>
           /\ payload' = IF res.returned = "body" THEN abcp.responses[res.tried].body.cars ELSE <<>>
    /\ pc' = "fetch_return"
    /\ UNCHANGED <<dbVars, crmVars, argVars, slice_i, syncVars>>

InitAbcp ==
    /\ StoreInit
    /\ deals = [d \in DealIds |-> NoDeal]
    /\ crmFail = {}
    /\ pc = "fetch_call"
    /\ args = [only_store |-> TRUE, only_sync |-> FALSE]
    /\ slices = YearSlices(1)
    /\ abcp \in [creds : {TRUE}, down : {{}}, cars : {Cars},
                  responses : [DOMAIN CandidateUrls -> Responses]]
    /\ LocalsInit

NextAbcp == fetch_garage_call

SpecAbcp == InitAbcp /\ [][NextAbcp]_vars

(***************************************************************************)
(* main.py: main, the while loop of lines 196-209                          *)
(***************************************************************************)
\* The iterations explored of a loop without a limit.
MaxIterations == 4

\* --loop-every: a positive number of minutes; 0 stands for None (argparse
\* leaves None, and main rejects a value <= 0 with p.error).
LoopEvery == {0, 1, 30}

\* ABCP_B24_LOOP_LIMIT: "" stands for an unset variable (both are falsy).
\* int(text) of the texts used; a text outside raises ValueError.
IntOfText == [t \in {"-1", "0", "1", "2", "3"} |->
                CASE t = "-1" -> 0 - 1 [] t = "0" -> 0 [] t = "1" -> 1
                  [] t = "2" -> 2 [] t = "3" -> 3]
LoopLimitEnv == {"", "abc"} \cup DOMAIN IntOfText

\* lines 183-194: loop_limit (0 stands for None).
loop_limit(loop_limit_env) ==
    IF loop_limit_env = "" THEN 0
    ELSE IF loop_limit_env \notin DOMAIN IntOfText THEN 0
    ELSE IF IntOfText[loop_limit_env] > 0 THEN IntOfText[loop_limit_env] ELSE 0

\* How a call of _execute_sync ends: it returns, or an exception leaves it.
\* The failures of the slices are caught (main.py:104-105); sync_all is
\* called outside any try block (main.py:111), and exceptions leave
\* sync_all (pc = "raised" in the runs above).
ExecuteSyncOutcomes == IF args.only_store THEN {"returned"} ELSE {"returned", "raised"}

\* lines 197-199: iteration += 1; _execute_sync(...).  An exception leaves
\* main.
main_execute_sync ==
    /\ pc = "main_while" /\ iteration < MaxIterations
    /\ iteration' = iteration + 1
    /\ \E outcome \in ExecuteSyncOutcomes :
          pc' = IF outcome = "raised" THEN "main_raised" ELSE "main_executed"
    /\ UNCHANGED <<dbVars, crmVars, args, slices, abcp, sleeps, b24Vars, slice_i, payload, fetchLog,
                   syncVars>>

\* lines 201-206: break without --loop-every, or when the limit is reached.
main_break ==
    /\ pc = "main_executed"
    /\ \/ args.loop_every = 0
       \/ loop_limit(args.loop_limit_env) # 0 /\ iteration >= loop_limit(args.loop_limit_env)
    /\ pc' = "main_exit"
    /\ UNCHANGED <<dbVars, crmVars, argVars, slice_i, payload, fetchLog, syncVars>>

\* lines 208-209: time.sleep(loop_every * 60) and the next iteration.
main_sleep ==
    /\ pc = "main_executed"
    /\ args.loop_every # 0
    /\ ~(loop_limit(args.loop_limit_env) # 0 /\ iteration >= loop_limit(args.loop_limit_env))
    /\ sleeps' = sleeps + 1
    /\ pc' = "main_while"
    /\ UNCHANGED <<dbVars, crmVars, args, slices, abcp, iteration, b24Vars, slice_i, payload, fetchLog,
                   syncVars>>

InitLoop ==
    /\ StoreInit
    /\ deals = [d \in DealIds |-> NoDeal]
    /\ crmFail = {}
    /\ pc = "main_while"
    /\ args \in [only_store : BOOLEAN, only_sync : BOOLEAN,
                  loop_every : LoopEvery, loop_limit_env : LoopLimitEnv]
    /\ slices = <<>>
    /\ abcp = [creds |-> TRUE, down |-> {}, cars |-> Cars]
    /\ slice_i = 0
    /\ payload = <<>>
    /\ fetchLog = <<>>
    /\ sync_all_user_id = 0
    /\ rows = <<>>
    /\ i = 0
    /\ ok = 0 /\ skipped = 0 /\ errors = 0
    /\ deal_id = 0
    /\ new_fields = EmptyDict /\ current = EmptyDict /\ diff = EmptyDict
    /\ saveArgs = NoArgs
    /\ saveInTry = FALSE
    /\ events = <<>>
    /\ iteration = 0 /\ sleeps = 0
    /\ B24Init

NextLoop ==
    \/ main_execute_sync
    \/ main_break
    \/ main_sleep

SpecLoop == InitLoop /\ [][NextLoop]_vars

(***************************************************************************)
(* The transport layer: the requests sessions of the two clients           *)
(***************************************************************************)
\* REQUESTS_RETRIES (config.py), the default.
REQUESTS_RETRIES == 3

\* What the remote system does with one attempt: it answers with an HTTP
\* status, or it does not answer within REQUESTS_TIMEOUT (NoAnswer).
NoAnswer == 0
Answers  == {NoAnswer, 200, 404, 429, 500, 503}

\* abcp_client._session(): a Session whose adapters carry
\* Retry(total=REQUESTS_RETRIES, status_forcelist=(429, 500, 502, 503, 504),
\* allowed_methods=("GET", "POST"), raise_on_status=False).
_session == [total |-> REQUESTS_RETRIES, status_forcelist |-> {429, 500, 502, 503, 504}]

\* b24_client: SESSION = requests.Session(), whose default adapters carry
\* max_retries=0, that is Retry(0, read=False).
requests_Session == [total |-> 0, status_forcelist |-> {}]

\* HTTPAdapter.send with the session's Retry, from the k-th attempt on: an
\* attempt without an answer or with a status of status_forcelist is
\* repeated while retries are left; then the response is returned, or the
\* timeout is raised.
RECURSIVE SessionSend(_, _, _)
SessionSend(session, answers, k) ==
    LET a == answers[k]
    IN  IF (a = NoAnswer \/ a \in session.status_forcelist) /\ k <= session.total
        THEN SessionSend(session, answers, k + 1)
        ELSE [attempts |-> k, status |-> a, raised |-> a = NoAnswer]

\* abcp_client.fetch_garage, line 169: r = SESSION.get(url, ...).
abcp_SESSION_get ==
    /\ pc = "request"
    /\ fetchLog' = <<[system |-> "abcp"] @@ SessionSend(_session, net, 1)>>
    /\ pc' = "responded"
    /\ UNCHANGED <<dbVars, crmVars, argVars, slice_i, payload, syncVars>>

\* b24_client._call, line 286: r = SESSION.post(url, ...).
b24_SESSION_post ==
    /\ pc = "request"
    /\ fetchLog' = <<[system |-> "b24"] @@ SessionSend(requests_Session, net, 1)>>
    /\ pc' = "responded"
    /\ UNCHANGED <<dbVars, crmVars, argVars, slice_i, payload, syncVars>>

InitTransport ==
    /\ StoreInit
    /\ deals = [d \in DealIds |-> NoDeal]
    /\ crmFail = {}
    /\ pc = "request"
    /\ args = [only_store |-> FALSE, only_sync |-> FALSE]
    /\ slices = YearSlices(1)
    /\ abcp = [creds |-> TRUE, down |-> {}, cars |-> Cars]
    /\ slice_i = 0
    /\ payload = <<>>
    /\ fetchLog = <<>>
    /\ sync_all_user_id = 0
    /\ rows = <<>>
    /\ i = 0
    /\ ok = 0 /\ skipped = 0 /\ errors = 0
    /\ deal_id = 0
    /\ new_fields = EmptyDict /\ current = EmptyDict /\ diff = EmptyDict
    /\ saveArgs = NoArgs
    /\ saveInTry = FALSE
    /\ events = <<>>
    /\ iteration = 1 /\ sleeps = 0
    /\ uf_cache = NoCache
    /\ userfields = AllUserFields
    /\ udf = NoUdf
    /\ net \in [1..(REQUESTS_RETRIES + 1) -> Answers]

NextTransport ==
    \/ abcp_SESSION_get
    \/ b24_SESSION_post

SpecTransport == InitTransport /\ [][NextTransport]_vars

(***************************************************************************)
(* b24_client.py: the field metadata and update_deal_fields, call by call  *)
(***************************************************************************)
\* The REST methods update_deal_fields and the metadata lookup call.
B24Methods == {"crm.deal.get", "crm.deal.update",
               "crm.deal.userfield.list", "crm.deal.userfield.get"}

\* _deal_userfields_map() under lru_cache(maxsize=1): the cached map when
\* there is one, else one crm.deal.userfield.list request (all its pages),
\* whose result is cached unless the request raises.  A map is written as
\* the set of its codes; the metadata of a code is UserTypeId[code].  The
\* cache holds nothing (NoCache) or one map (Cached).
_deal_userfields_map(cache) ==
    IF cache # NoCache THEN [cache |-> cache, mp |-> cache[1], loads |-> 0, raised |-> FALSE]
    ELSE IF CallRaises("crm.deal.userfield.list")
         THEN [cache |-> NoCache, mp |-> {}, loads |-> 1, raised |-> TRUE]
         ELSE [cache |-> Cached(userfields), mp |-> userfields, loads |-> 1, raised |-> FALSE]

\* A bug cache_clear could have: the cached map is kept.
cache_clear_kept(cache) == cache

\* _deal_userfields_map.cache_clear()
cache_clear(cache) == NoCache

\* _get_uf_meta_by_code(code) with the cache as it is: the cache after the
\* call, the crm.deal.userfield.list requests made before and after
\* cache_clear, whether the call raised, and the USER_TYPE_ID of the
\* metadata returned (NoneV: the empty dict).  crm.deal.userfield.get is
\* called for a code that was found; its failure is logged at debug level
\* and the metadata of the list is returned.
_get_uf_meta_by_code(cache, code) ==
    LET first == _deal_userfields_map(cache)
        again == _deal_userfields_map(cache_clear(first.cache))
        none  == [cache |-> NoCache, loads |-> first.loads, cleared |-> 0, reloads |-> 0,
                  raised |-> FALSE, meta |-> NoneV, get |-> FALSE, get_failed |-> FALSE]
        found(mp) == [none EXCEPT !.cache = mp, !.meta = UserTypeId[code], !.get = TRUE,
                                  !.get_failed = CallRaises("crm.deal.userfield.get")]
    IN  IF first.raised THEN [none EXCEPT !.raised = TRUE]
        ELSE IF code \in first.mp THEN found(first.cache)
        ELSE IF again.raised
             THEN [none EXCEPT !.cleared = 1, !.reloads = again.loads, !.raised = TRUE]
             ELSE IF code \in again.mp
                  THEN [found(again.cache) EXCEPT !.cleared = 1, !.reloads = again.loads]
                  ELSE [none EXCEPT !.cache = again.cache, !.cleared = 1, !.reloads = again.loads]

\* An entry of the history for a request made inside update_deal_fields:
\* whether the response carried an error envelope, and whether the
\* exception raised for it left the function op that made the request.
B24Call(method, op, envelope, propagated) ==
    [op |-> op, envelope |-> envelope, propagated |-> envelope /\ propagated]
    @@ Event("crm", method)

\* The history of one _get_uf_meta_by_code(code) call with outcome r: its
\* requests, and the lookup itself with the cache it found and left.
LookupEvents(cache, code, r) ==
    LET op == "_get_uf_meta_by_code"
        list(n, failed) ==
            [k \in 1..n |-> B24Call("crm.deal.userfield.list", op, failed /\ k = n, TRUE)]
    IN  list(r.loads + r.reloads, r.raised)
        \o (IF r.get THEN <<B24Call("crm.deal.userfield.get", op, r.get_failed, FALSE)>>
            ELSE <<>>)
        \o <<[code |-> code, cached |-> cache, after |-> r.cache, loads |-> r.loads, cleared |-> r.cleared,
              reloads |-> r.reloads, raised |-> r.raised, meta |-> r.meta]
             @@ Event("lookup", code)>>

\* The fields of udf.fields still to normalize, in dict order.
ToNormalize == SelectSeq(KeyList(udf.fields), LAMBDA c : c \notin DOMAIN udf.norm_fields)

\* sync_service.py line 261: update_deal_fields(deal_id, diff) is called
\* inside the try block; lines 373-375: nothing to do for an empty dict.
update_deal_fields_call ==
    /\ pc = "update"
    /\ udf' = [NoUdf EXCEPT !.fields = diff, !.ret = IF DOMAIN diff = {} THEN "True" ELSE ""]
    /\ pc' = IF DOMAIN diff = {} THEN "udf_return" ELSE "udf_normalize"
    /\ UNCHANGED <<dbVars, crmVars, args, slices, abcp, mainVars, uf_cache, userfields, net,
                   slice_i, payload, fetchLog, syncVars>>

\* _normalize_fields_for_update, one turn of its loop: None becomes "",
\* any other value is normalized by the type _get_uf_meta_by_code reports.
\* An exception of the lookup leaves update_deal_fields.
normalize_field ==
    /\ pc = "udf_normalize" /\ ToNormalize # <<>>
    /\ LET k == Head(ToNormalize)
           v == udf.fields[k]
           r == _get_uf_meta_by_code(uf_cache, k)
       IN  IF v = NoneV
           THEN /\ udf' = [udf EXCEPT !.norm_fields = DictSet(@, k, "")]
                /\ UNCHANGED <<uf_cache, events, pc>>
           ELSE /\ uf_cache' = r.cache
                /\ events' = events \o LookupEvents(uf_cache, k, r)
                /\ IF r.raised
                   THEN pc' = "udf_raised" /\ UNCHANGED udf
                   ELSE /\ udf' = [udf EXCEPT !.norm_fields =
                                      DictSet(@, k, NormalizedAs(IF r.meta = NoneV THEN "" ELSE r.meta, v))]
                        /\ UNCHANGED pc
    /\ UNCHANGED <<dbVars, crmVars, args, slices, abcp, mainVars, userfields, net,
                   slice_i, payload, fetchLog, sync_all_user_id, rows, i, cntVars, rowVars,
                   saveArgs, saveInTry>>

\* lines 381-385: before = get_deal_fields(...); a failure is logged as a
\* warning and before = {}.
udf_before ==
    /\ pc = "udf_normalize" /\ ToNormalize = <<>>
    /\ LET r == get_deal_fields(deal_id, DOMAIN udf.norm_fields)
       IN  /\ udf' = [udf EXCEPT !.before = r.fields]
           /\ events' = Append(events, B24Call("crm.deal.get", "update_deal_fields", r.raised, FALSE))
    /\ pc' = "udf_update"
    /\ UNCHANGED <<dbVars, crmVars, args, slices, abcp, mainVars, uf_cache, userfields, net,
                   slice_i, payload, fetchLog, sync_all_user_id, rows, i, cntVars, rowVars,
                   saveArgs, saveInTry>>

\* crm.deal.update: the deal stores the fields it is sent that are user
\* fields of deals; the CRM ignores the others.
DealApplied(d, norm_fields) ==
    [deals EXCEPT ![d].fields =
        [c \in Codes |-> IF c \in DOMAIN norm_fields /\ c \in userfields
                         THEN norm_fields[c] ELSE @[c]]]

\* lines 393-397: _call("crm.deal.update", ...); an error raises.
udf_update ==
    /\ pc = "udf_update"
    /\ events' = Append(events, [B24Call("crm.deal.update", "update_deal_fields",
                                         CallRaises("crm.deal.update"), TRUE)
                                 EXCEPT !.keys = DOMAIN udf.norm_fields])
    /\ IF CallRaises("crm.deal.update")
       THEN pc' = "udf_raised" /\ UNCHANGED deals
       ELSE pc' = "udf_after" /\ deals' = DealApplied(deal_id, udf.norm_fields)
    /\ UNCHANGED <<dbVars, crmFail, args, slices, abcp, mainVars, b24Vars,
                   slice_i, payload, fetchLog, sync_all_user_id, rows, i, cntVars, rowVars,
                   saveArgs, saveInTry>>

\* lines 412-418: the fields that were to change and read the same after
\* the update as before it.
NotApplied(norm_fields, before, after) ==
    SelectSeq(KeyList(norm_fields),
              LAMBDA k : LET old == DictGet(before, k)
                             cur == DictGet(after, k)
                             same == \/ cur = norm_fields[k]
                                     \/ (cur # NoneV /\ str(cur) = str(norm_fields[k]))
                         IN  ~same /\ str(old) = str(cur))

\* lines 405-418 and 431-433: after = get_deal_fields(...); a failure is
\* logged as a warning and True is returned.  True is returned as well when
\* every field was applied.
udf_after ==
    /\ pc = "udf_after"
    /\ LET r == get_deal_fields(deal_id, DOMAIN udf.norm_fields)
           na == NotApplied(udf.norm_fields, udf.before, r.fields)
       IN  /\ events' = Append(events, B24Call("crm.deal.get", "update_deal_fields", r.raised, FALSE))
           /\ IF r.raised
              THEN udf' = [udf EXCEPT !.ret = "True"] /\ pc' = "udf_return"
              ELSE IF na = <<>>
                   THEN udf' = [udf EXCEPT !.after = r.fields, !.ret = "True"] /\ pc' = "udf_return"
                   ELSE udf' = [udf EXCEPT !.after = r.fields, !.not_applied = na] /\ pc' = "udf_verify"
    /\ UNCHANGED <<dbVars, crmVars, args, slices, abcp, mainVars, uf_cache, userfields, net,
                   slice_i, payload, fetchLog, sync_all_user_id, rows, i, cntVars, rowVars,
                   saveArgs, saveInTry>>

\* lines 420-430: one turn of the loop that collects the diagnostics of the
\* fields not applied, with _get_uf_meta_by_code outside any try block;
\* after the last turn the warning is logged and False is returned.
udf_diag ==
    /\ pc = "udf_verify"
    /\ LET code == udf.not_applied[udf.diag + 1]
           r == _get_uf_meta_by_code(uf_cache, code)
       IN  /\ uf_cache' = r.cache
           /\ events' = events \o LookupEvents(uf_cache, code, r)
           /\ IF r.raised
              THEN pc' = "udf_raised" /\ UNCHANGED udf
              ELSE IF udf.diag + 1 = Len(udf.not_applied)
                   THEN udf' = [udf EXCEPT !.diag = @ + 1, !.ret = "False"] /\ pc' = "udf_return"
                   ELSE udf' = [udf EXCEPT !.diag = @ + 1] /\ UNCHANGED pc
    /\ UNCHANGED <<dbVars, crmVars, args, slices, abcp, mainVars, userfields, net,
                   slice_i, payload, fetchLog, sync_all_user_id, rows, i, cntVars, rowVars,
                   saveArgs, saveInTry>>

\* sync_service.py lines 262-273: update_deal_fields returned (its value is
\* not looked at): ok += 1 and the outcome 'updated' is saved.
update_returned ==
    /\ pc = "udf_return"
    /\ ok' = ok + 1
    /\ saveArgs' = SaveArgs(rows[i].userId, deal_id, "updated", KeyList(diff), "")
    /\ saveInTry' = TRUE
    /\ pc' = "save_audit"
    /\ UNCHANGED <<dbVars, crmVars, fetchVars, sync_all_user_id, rows, i, skipped, errors,
                   rowVars, events>>

\* sync_service.py lines 274-285: update_deal_fields raised: errors += 1 and
\* the outcome 'error' is saved.
update_raised ==
    /\ pc = "udf_raised"
    /\ errors' = errors + 1
    /\ saveArgs' = SaveArgs(rows[i].userId, deal_id, "error", KeyList(diff), "RuntimeError")
    /\ saveInTry' = FALSE
    /\ pc' = "save_audit"
    /\ UNCHANGED <<dbVars, crmVars, fetchVars, sync_all_user_id, rows, i, ok, skipped,
                   rowVars, events>>

\* Bitrix24 between two requests of update_deal_fields: a method starts or
\* stops answering with an error.
UdfPcs == {"udf_normalize", "udf_update", "udf_after", "udf_verify"}
crm_availability_changes ==
    /\ pc \in UdfPcs
    /\ \E m \in B24Methods :
         crmFail' = IF m \in crmFail THEN crmFail \ {m} ELSE crmFail \cup {m}
    /\ UNCHANGED <<dbVars, deals, pc, fetchVars, syncVars>>

\* Bitrix24 while the process runs: an administrator defines a user field
\* on deals.
crm_userfield_created ==
    /\ pc \in UdfPcs
    /\ \E c \in AllUserFields \ userfields : userfields' = userfields \cup {c}
    /\ UNCHANGED <<dbVars, crmVars, pc, args, slices, abcp, mainVars, uf_cache, udf, net,
                   slice_i, payload, fetchLog, syncVars>>

\* sync_all in its try block for the only row selected, a car of customer
\* 1 whose deal 11 was found and read and differs from the candidate
\* fields; the CRM defines all user fields or lacks some of the mapped
\* ones; the process has loaded the metadata before, or not.
B24Rows == {<<car>> : car \in {c \in Cars : c.userId = 1 /\ c.id = 1 /\ c.mileage = 7}}
UserFieldsInit == {AllUserFields \ ks : ks \in SUBSET {"UF_CRM_MILEAGE", "UF_CRM_DATE"}}

InitB24 ==
    /\ StoreInit
    /\ deals \in {d \in DealInit : d[11] # NoDeal /\ d[12] = NoDeal}
    /\ crmFail \in SUBSET {"crm.deal.userfield.list", "crm.deal.userfield.get"}
    /\ pc = "update"
    /\ args = [only_store |-> FALSE, only_sync |-> TRUE]
    /\ slices = YearSlices(1)
    /\ abcp = [creds |-> TRUE, down |-> {}, cars |-> Cars]
    /\ slice_i = 0
    /\ payload = <<>>
    /\ fetchLog = <<>>
    /\ sync_all_user_id = 0
    /\ rows \in B24Rows
    /\ i = 1
    /\ ok = 0 /\ skipped = 0 /\ errors = 0
    /\ deal_id = 11
    /\ new_fields = ExpectedUpdateFields(rows[1])
    /\ current = [c \in DOMAIN new_fields |-> deals[11].fields[c]]
    /\ diff = _diff_fields(current, new_fields)
    /\ DOMAIN diff # {}
    /\ saveArgs = NoArgs
    /\ saveInTry = FALSE
    /\ events = <<>>
    /\ iteration = 1 /\ sleeps = 0
    /\ userfields \in UserFieldsInit
    /\ uf_cache \in {NoCache, Cached(userfields)}
    /\ udf = NoUdf
    /\ net = <<>>

NextB24 ==
    \/ update_deal_fields_call
    \/ normalize_field
    \/ udf_before
    \/ udf_update
    \/ udf_after
    \/ udf_diag
    \/ update_returned
    \/ update_raised
    \/ crm_availability_changes
    \/ crm_userfield_created
    \/ save_audit_insert
    \/ save_status_upsert
    \/ save_commit
    \/ save_raises
    \/ sync_all_return

SpecB24 == InitB24 /\ [][NextB24]_vars

(***************************************************************************)
(* Properties                                                              *)
(***************************************************************************)
SaveStates == {"save_audit", "save_status", "save_commit"}
Terminated == pc \in {"returned", "raised"}

EventsOf(k, kind) == {p \in DOMAIN events : events[p].k = k /\ events[p].kind = kind}
CrmCalls(k, method) == {p \in EventsOf(k, "crm") : events[p].what = method}

\* The rows for which the CRM was called.
CrmRows == {events[p].k : p \in {q \in DOMAIN events : events[q].kind = "crm"}}

\* The k-th row's outcome is in sync_audit (the run starts with the table
\* empty, so the k-th audit row is the k-th row's).
Persisted(k) ==
    /\ k \in DOMAIN sync_audit
    /\ sync_audit[k].sourceGarageId = rows[k].id
    /\ sync_audit[k].sourceDateUpdated = rows[k].dateUpdated

\* C1: in sync_all the rows are handled in order; each row's outcome is
\* persisted once, after the row's CRM calls and before any CRM call or
\* outcome of the next row; so in every state (every point where the run
\* can be interrupted) at most one row has had CRM calls without a
\* persisted outcome, and when sync_all returns every row has its outcome.
C1_OneOutcomePerRowInOrder ==
    /\ \A p, q \in DOMAIN events :
          p < q => /\ events[p].k <= events[q].k
                   /\ events[p].k = events[q].k => events[p].kind = "crm"
    /\ \A k \in DOMAIN sync_audit :
          k <= Len(rows) /\ Persisted(k) /\ Cardinality(EventsOf(k, "outcome")) = 1
    /\ \A k \in 1..Len(rows) : EventsOf(k, "outcome") # {} => Persisted(k)
    /\ Cardinality({k \in CrmRows : ~Persisted(k)}) <= 1
    /\ pc = "returned" => \A k \in 1..Len(rows) : Persisted(k)

\* Reached: sync_all has returned after two rows, each with a CRM call and
\* a persisted outcome.
C1_Witness ==
    /\ pc = "returned"
    /\ Len(rows) = 2
    /\ CrmRows = {1, 2}
    /\ Persisted(1) /\ Persisted(2)

\* C2: a failure of the deal lookup, of building the candidate fields, of
\* reading the current values or of the update never leaves sync_all: the
\* only exception that ends the run is one of save_sync_result itself.
C2_PerCustomerFailuresAreCaught ==
    \A p \in DOMAIN events :
        events[p].kind = "raised" => events[p].what = "save_sync_result"

\* The processing of row k is over: its outcome was committed, or an
\* exception left sync_all while it was the current row.
Ended(k) == k < i \/ (pc = "raised" /\ k = i)

\* save_sync_result raised out of sync_all while row k was the current row.
SaveRaised(k) == \E p \in EventsOf(k, "raised") : events[p].what = "save_sync_result"

\* The deal the lookup returned for row k (0: none, or no lookup).
FoundDeal(k) ==
    IF \E p \in CrmCalls(k, "crm.deal.list") : events[p].deal # 0
    THEN events[CHOOSE p \in CrmCalls(k, "crm.deal.list") : events[p].deal # 0].deal
    ELSE 0

\* The lookup for row k answered and returned no deal.
NoDealFound(k) ==
    /\ rows[k].userId # 0
    /\ CrmCalls(k, "crm.deal.list") # {}
    /\ FoundDeal(k) = 0
    /\ \A p \in EventsOf(k, "raised") : events[p].what # "find_deal_by_user"

\* The candidate fields of row k as the test of _build_update_fields expects
\* them, the deal's values of those fields when the deal was found, and
\* their diff.
Candidate(k) == ExpectedUpdateFields(rows[k])
CurrentAt(k) ==
    LET snap == events[CHOOSE p \in CrmCalls(k, "crm.deal.list") : events[p].deal # 0].snap
    IN  [c \in DOMAIN Candidate(k) |-> snap[c]]
DiffOf(k) == _diff_fields(CurrentAt(k), Candidate(k))

ReadOk   == ~CallRaises("crm.deal.get")
UpdateOk == ~CallRaises("crm.deal.update")

\* Row k went through the lookup with a deal, and no failure of the local
\* store ended the run at it.
Reconciled(k) == Ended(k) /\ FoundDeal(k) # 0 /\ ~SaveRaised(k)

\* C3: for a customer whose deal was found and read and whose diff is not
\* empty, crm.deal.update is called, and every such call carries exactly
\* the field codes of the diff.
C3_UpdateSendsExactlyTheDiff ==
    \A k \in 1..Len(rows) :
        (Reconciled(k) /\ ReadOk /\ DOMAIN DiffOf(k) # {}) =>
            /\ CrmCalls(k, "crm.deal.update") # {}
            /\ \A p \in CrmCalls(k, "crm.deal.update") : events[p].keys = DOMAIN DiffOf(k)

\* C4: a run over a deal that already holds what crm.deal.update is sent for
\* the customer's record (the state a first, successful run leaves) makes no
\* update call and records "skipped".
C4_RerunIsSkipped ==
    \A k \in 1..Len(rows) :
        (Reconciled(k) /\ ReadOk
            /\ CurrentAt(k) = _normalize_fields_for_update(Candidate(k))) =>
            /\ CrmCalls(k, "crm.deal.update") = {}
            /\ Persisted(k) /\ sync_audit[k].result = "skipped"

\* C5: when reading the deal's current values fails, the outcome recorded
\* for the customer is "error", the error counter counts it and no update
\* call is made for the customer.
C5_ReadFailureIsRecorded ==
    \A k \in 1..Len(rows) :
        (Reconciled(k) /\ ~ReadOk) =>
            /\ CrmCalls(k, "crm.deal.update") = {}
            /\ Persisted(k) /\ sync_audit[k].result = "error"
            /\ errors >= 1

\* C6: when every candidate field equals the deal's current value, no
\* update call is made, the customer is counted as skipped and the outcome
\* is "skipped" with count 0, no field codes and no error text.
C6_EmptyDiffIsSkipped ==
    \A k \in 1..Len(rows) :
        (Reconciled(k) /\ ReadOk /\ DOMAIN DiffOf(k) = {}) =>
            /\ CrmCalls(k, "crm.deal.update") = {}
            /\ Persisted(k)
            /\ sync_audit[k].result = "skipped"
            /\ sync_audit[k].fieldsUpdatedCount = 0
            /\ sync_audit[k].fieldsUpdatedJson = <<>>
            /\ sync_audit[k].error = ""
            /\ skipped >= 1

\* C7: with a non-empty diff, a successful update call is counted as updated
\* and recorded as "updated" with the diff's keys and size; a failed one is
\* counted as an error and recorded as "error" with the diff's keys and the
\* failure's text.
C7_UpdateOutcomeIsRecorded ==
    \A k \in 1..Len(rows) :
        (Reconciled(k) /\ ReadOk /\ DOMAIN DiffOf(k) # {}) =>
            /\ Persisted(k)
            /\ sync_audit[k].fieldsUpdatedJson = KeyList(DiffOf(k))
            /\ sync_audit[k].fieldsUpdatedCount = Cardinality(DOMAIN DiffOf(k))
            /\ IF UpdateOk
               THEN sync_audit[k].result = "updated" /\ sync_audit[k].error = "" /\ ok >= 1
               ELSE sync_audit[k].result = "error" /\ sync_audit[k].error # "" /\ errors >= 1

\* The last sync_audit row of user u (0 when u has none).
LastAuditOf(u) ==
    IF \E j \in DOMAIN sync_audit : sync_audit[j].userId = u
    THEN CHOOSE j \in DOMAIN sync_audit :
            /\ sync_audit[j].userId = u
            /\ \A m \in DOMAIN sync_audit : sync_audit[m].userId = u => m <= j
    ELSE 0

\* C8: for a customer whose lookup finds no deal, sync_all makes no read and
\* no update call, counts the customer as skipped, and records "skipped"
\* with error "deal not found" and no deal id, in sync_audit and (until a
\* later attempt of the same user replaces it) in sync_status; a run over
\* that customer alone returns (0, 1, 0).
C8_NoDealIsSkipped ==
    /\ \A k \in 1..Len(rows) :
          (NoDealFound(k) /\ Ended(k) /\ ~SaveRaised(k)) =>
              /\ CrmCalls(k, "crm.deal.get") = {}
              /\ CrmCalls(k, "crm.deal.update") = {}
              /\ skipped >= 1
              /\ Persisted(k)
              /\ sync_audit[k].result = "skipped"
              /\ sync_audit[k].error = "deal not found"
              /\ sync_audit[k].dealId = 0
              /\ LastAuditOf(rows[k].userId) = k =>
                    LET st == sync_status[rows[k].userId]
                    IN  /\ st.lastResult = "skipped"
                        /\ st.lastError = "deal not found"
                        /\ st.dealId = 0
    /\ (pc = "returned" /\ Len(rows) = 1 /\ NoDealFound(1)) =>
          <<ok, skipped, errors>> = <<0, 1, 0>>

C8_Witness ==
    /\ pc = "returned" /\ Len(rows) = 1 /\ NoDealFound(1)
    /\ sync_status[rows[1].userId].lastError = "deal not found"
    /\ \E d \in DealIds : deals[d].exists

\* C9: save_sync_result is atomic: in every state the users of sync_status
\* are the users of sync_audit and each user's status row is the one of the
\* user's last audit row; when a call raises, neither of its statements is
\* persisted.
C9_SaveSyncResultIsAtomic ==
    /\ DOMAIN sync_status = {sync_audit[j].userId : j \in DOMAIN sync_audit}
    /\ \A u \in DOMAIN sync_status :
          LET a == sync_audit[LastAuditOf(u)]
              st == sync_status[u]
          IN  /\ st.lastResult = a.result
              /\ st.lastError = a.error
              /\ st.dealId = a.dealId
              /\ st.sourceGarageId = a.sourceGarageId
              /\ st.sourceDateUpdated = a.sourceDateUpdated
              /\ st.fieldsUpdatedCount = a.fieldsUpdatedCount
              /\ st.fieldsUpdatedJson = a.fieldsUpdatedJson
    /\ \A k \in 1..Len(rows) : SaveRaised(k) => Len(sync_audit) = k - 1
    /\ pc \notin SaveStates => tx = <<>>

\* save_sync_result raised after its INSERT INTO sync_audit was executed,
\* on the second row of the run.
C9_Witness ==
    /\ pc = "raised" /\ i = 2 /\ SaveRaised(2)
    /\ \E p \in EventsOf(2, "raised") : "sync_audit" \in events[p].keys
    /\ Len(sync_audit) = 1

AuditOf(u) == SelectSeq(sync_audit, LAMBDA r : r.userId = u)

\* C11: sync_status has at most one row per userId (the row stored under
\* user u is u's), and for every user with an audit row that row's deal id,
\* source record id and timestamp, result, field count, field codes and
\* error are those of the user's most recently appended sync_audit row.
C11_StatusIsLastAudit ==
    /\ \A u \in DOMAIN sync_status : sync_status[u].userId = u
    /\ \A u \in UserIds :
          AuditOf(u) # <<>> =>
              /\ u \in DOMAIN sync_status
              /\ LET last == AuditOf(u)[Len(AuditOf(u))]
                 IN  sync_status[u] =
                        [ userId |-> u, dealId |-> last.dealId,
                          sourceGarageId |-> last.sourceGarageId,
                          sourceDateUpdated |-> last.sourceDateUpdated,
                          lastResult |-> last.result,
                          fieldsUpdatedCount |-> last.fieldsUpdatedCount,
                          fieldsUpdatedJson |-> last.fieldsUpdatedJson,
                          lastError |-> last.error ]

\* A user's second attempt, from another source record, has replaced the
\* status row of the first.
C11_Witness ==
    \E u \in DOMAIN sync_status :
        /\ Len(AuditOf(u)) = 2
        /\ AuditOf(u)[1].sourceGarageId # AuditOf(u)[2].sourceGarageId
        /\ sync_status[u].sourceGarageId = AuditOf(u)[2].sourceGarageId

(***************************************************************************)
(* Properties of the fetch stage                                           *)
(***************************************************************************)
\* The step is a slice iteration whose store_payload call returned.
StoredStep ==
    /\ pc = "fetch" /\ slice_i' = slice_i + 1
    /\ fetchLog'[Len(fetchLog')].stored

\* The rows of table g with an id, and the record stored last for the id
\* in a batch that has one.
RowsWithId(g, id) == {r \in g : r.id = id}
LastWithId(batch, id) ==
    batch[CHOOSE k \in DOMAIN batch :
            /\ batch[k].id = id
            /\ \A m \in DOMAIN batch : batch[m].id = id => m <= k]

\* C12: garage never has two rows with one id, and a store_payload call
\* that returns leaves, for every id of its batch, the one row that equals
\* the record stored last for that id (whatever the table held for it) and
\* leaves the rows of the other ids as they were: so the table holds one
\* row per id ever stored, equal to the most recently stored record.
C12_OneRowPerIdLastStored ==
    /\ [](\A r1, r2 \in garage : r1.id = r2.id => r1 = r2)
    /\ [][ StoredStep =>
             \A id \in GarageIds :
                IF \E k \in DOMAIN payload' : payload'[k].id = id
                THEN RowsWithId(garage', id) = {LastWithId(payload', id)}
                ELSE RowsWithId(garage', id) = RowsWithId(garage, id) ]_vars

\* The second store_payload call of a run stored two versions of one car,
\* with another customer and another timestamp, after a first call that
\* stored two records; the table holds the version stored last.
C12_Witness ==
    /\ Len(fetchLog) = 2
    /\ fetchLog[1].stored /\ fetchLog[1].total = 2
    /\ fetchLog[2].stored /\ Len(payload) = 2
    /\ payload[1].id = payload[2].id
    /\ payload[1].userId # payload[2].userId
    /\ payload[1].dateUpdated # payload[2].dateUpdated
    /\ payload[2] \in garage /\ payload[1] \notin garage
    /\ Cardinality(garage) = 2

\* C13: store_payload is idempotent: a call with the batch the call before
\* it stored leaves garage as that call left it and returns the same
\* count.
C13_StorePayloadIdempotent ==
    [][ (StoredStep /\ fetchLog'[Len(fetchLog')].repeat) =>
            /\ garage' = garage
            /\ fetchLog'[Len(fetchLog')].total = fetchLog[Len(fetchLog)].total ]_vars

\* A batch of two cars was stored twice in succession.
C13_Witness ==
    /\ Len(fetchLog) = 2
    /\ fetchLog[2].repeat /\ fetchLog[2].stored /\ fetchLog[2].total = 2
    /\ Cardinality(garage) = 2
    /\ Range(payload) = garage

(***************************************************************************)
(* Properties of the selection                                             *)
(***************************************************************************)
\* sync_all has selected its rows (garage is not written after that).
Selected == pc \notin {"start", "fetch", "reconcile", "done"}

\* The customers the selection is about: the named one, or every customer
\* with a stored record.
SelectedUsers ==
    IF sync_all_user_id # 0 THEN {sync_all_user_id} \cap {g.userId : g \in garage}
    ELSE {g.userId : g \in garage}

\* C14: for every customer the selection is about that has a stored
\* record, _select_latest_rows_per_user returns exactly one row, and it is
\* one of the customer's rows with the maximal dateUpdated; so also when
\* several of the customer's rows share the maximum.
C14_OneLatestRowPerUser ==
    Selected =>
        \A u \in SelectedUsers \ {0} :
            /\ Cardinality({k \in DOMAIN rows : rows[k].userId = u}) = 1
            /\ \A k \in DOMAIN rows : rows[k].userId = u => rows[k] \in LatestOf(u)

\* The fetch stage of the run is over.
FetchStageOver == pc \notin {"start", "fetch"} /\ ~args.only_sync

\* C15: a failure of fetch_garage or store_payload for a slice ends only
\* that slice's iteration: the slices are iterated in ascending order, none
\* is left out whatever failed before it, every payload fetched is handed
\* to store_payload, a failed iteration leaves garage as it was, and after
\* the stage sync_all runs unless --only-store is set.
C15_SliceFailureAbortsOnlyThatSlice ==
    /\ [](\A k \in DOMAIN fetchLog :
             /\ fetchLog[k].slice = slices[k]
             /\ k > 1 => fetchLog[k - 1].slice < fetchLog[k].slice)
    /\ [](FetchStageOver => Len(fetchLog) = Len(slices))
    /\ [](pc = "done" => args.only_store)
    /\ []((pc = "reconcile" /\ ~args.only_store) =>
             ENABLED (\E u \in UserIds : sync_all_start(u)))
    /\ [][ (pc = "fetch" /\ slice_i' = slice_i + 1) =>
             LET e == fetchLog'[Len(fetchLog')]
             IN  /\ e.raised = "" <=> e.stored
                 /\ e.raised # "" => garage' = garage ]_vars

\* The request for the first slice failed, the second slice was fetched and
\* stored, and sync_all has started.
C15_Witness ==
    /\ Len(fetchLog) = 2
    /\ fetchLog[1].raised = "requests.HTTPError"
    /\ fetchLog[2].stored /\ fetchLog[2].total = 2
    /\ pc = "loop" /\ Len(rows) >= 1

\* C16: when store_payload fails part-way through a batch the exception
\* reaches its caller and no row of the batch is committed: garage is as it
\* was before the call.  (It fails exactly when a record of the batch lacks
\* a bound column.)
C16_FailedBatchIsRolledBack ==
    [][ (pc = "fetch" /\ slice_i' = slice_i + 1 /\ payload' # <<>>
            /\ fetchLog'[Len(fetchLog')].raised \notin {"AbcpConfigError", "requests.HTTPError"}) =>
            LET e == fetchLog'[Len(fetchLog')]
                failed == \E k \in DOMAIN payload' : ~Bindable(payload'[k])
            IN  /\ failed <=> e.raised = "sqlite3.ProgrammingError"
                /\ failed => (garage' = garage /\ ~e.stored) ]_vars

\* store_payload raised on the second record of a batch, after it had
\* upserted a first record the table did not hold.
C16_Witness ==
    /\ Len(fetchLog) = 1
    /\ fetchLog[1].raised = "sqlite3.ProgrammingError"
    /\ fetchLog[1].total = 1
    /\ Len(payload) = 2 /\ Bindable(payload[1])
    /\ garage = {}

\* C17: store_payload does not raise because of a malformed record of a
\* batch, and the well-formed records of the batch are stored: after every
\* store_payload call, the call has returned and garage has a row for each
\* well-formed record of its batch.
C17_MalformedRecordDoesNotFailTheBatch ==
    \A n \in DOMAIN fetchLog :
        (fetchLog[n].requested /\ fetchLog[n].raised # "requests.HTTPError") =>
            /\ fetchLog[n].raised = ""
            /\ (n = Len(fetchLog) /\ pc = "fetch") =>
                  \A k \in DOMAIN payload :
                      Bindable(payload[k]) => RowsWithId(garage, payload[k].id) # {}

\* C18: when the ABCP credentials are absent the configuration error is
\* raised before any request is made, and the run stops there: it goes on
\* neither to a later slice nor to the reconcile stage.
C18_MissingCredentialsFailFast ==
    ~abcp.creds =>
        /\ \A n \in DOMAIN fetchLog :
              fetchLog[n].raised = "AbcpConfigError" /\ ~fetchLog[n].requested
        /\ Len(fetchLog) <= 1
        /\ fetchLog # <<>> => (~Selected /\ events = <<>>)

\* The string form of a value: None is the empty string, an int its
\* decimal digits, a string itself.
StringForm(v) ==
    CASE v = NoneV    -> ""
      [] v = PyInt(0) -> "0"
      [] v = PyInt(7) -> "7"
      [] OTHER        -> v

\* The string form of what current holds for a code (a missing code counts
\* as None).
CurrentForm(k) == IF k \in DOMAIN current THEN StringForm(current[k]) ELSE ""

Differing == {k \in DOMAIN new_fields : StringForm(new_fields[k]) # CurrentForm(k)}

\* C19: _diff_fields(current, candidate) is exactly the candidate entries
\* whose string form differs from the string form of the current value of
\* the same code (None and a missing code count as the empty string), each
\* with the candidate's value: empty when all are equal, {k} when only k
\* differs, never a code absent from the candidate, and a function of the
\* two maps alone.
C19_DiffIsEntriesWhoseStringFormDiffers ==
    pc = "diff_return" =>
        /\ DOMAIN diff = Differing
        /\ \A k \in DOMAIN diff : diff[k] = new_fields[k]
        /\ DOMAIN diff \subseteq DOMAIN new_fields
        /\ (\A k \in DOMAIN new_fields : StringForm(new_fields[k]) = CurrentForm(k)) => diff = EmptyDict
        /\ \A k \in DOMAIN new_fields :
              (\A c \in DOMAIN new_fields : (c = k) <=> (StringForm(new_fields[c]) # CurrentForm(c)))
                  => DOMAIN diff = {k}

\* Only the date differs; the mileage is the int 7 on one side and the
\* string "7" on the other, and the current date is None.
C19_Witness ==
    /\ pc = "diff_return"
    /\ DOMAIN new_fields = DiffCodes
    /\ "UF_CRM_MILEAGE" \in DOMAIN current
    /\ current["UF_CRM_MILEAGE"] = PyInt(7)
    /\ new_fields["UF_CRM_MILEAGE"] = "7"
    /\ "UF_CRM_DATE" \notin DOMAIN current
    /\ new_fields["UF_CRM_DATE"] = "8"
    /\ DOMAIN diff = {"UF_CRM_DATE"}
    /\ deals[11].exists

\* The field codes configured for the k-th source attribute: the non-empty
\* values of its environment names.
ConfiguredCodes(k) ==
    {Environ[n] : n \in {m \in Range(BITRIX_FIELD_ENV_MAP[k].env_name.items) :
                            m \in DOMAIN Environ /\ Environ[m] # ""}}

\* C20: _build_update_fields returns, for each source attribute (one the
\* overwrite rule does not skip), an entry for every field code configured
\* among the attribute's environment names, all with the attribute's string
\* value, and no entry for anything else; userId fills both the
\* UF_B24_DEAL_GARAGE_USER_ID code and the UF_B24_DEAL_ABCP_USER_ID code.
C20_BuildFansOutToConfiguredCodes ==
    [][pc = "build" =>
        /\ pc' = "read"
        /\ \A k \in DOMAIN BITRIX_FIELD_ENV_MAP :
              LET abcp_key == BITRIX_FIELD_ENV_MAP[k].abcp_key
              IN  (_overwrite_for_field(abcp_key) \/ ~RowEmpty(rows[i], abcp_key)) =>
                      \A c \in ConfiguredCodes(k) :
                          /\ c \in DOMAIN new_fields'
                          /\ new_fields'[c] = RowStr(rows[i], abcp_key)
        /\ DOMAIN new_fields' \subseteq UNION {ConfiguredCodes(k) : k \in DOMAIN BITRIX_FIELD_ENV_MAP}
        /\ new_fields'[Environ["UF_B24_DEAL_GARAGE_USER_ID"]] = ToString(rows[i].userId)
        /\ new_fields'[Environ["UF_B24_DEAL_ABCP_USER_ID"]] = ToString(rows[i].userId)
    ]_vars

\* C21: with overwrite disabled for an attribute and the record's value of
\* it empty (None, "" or 0), _build_update_fields returns no entry for the
\* attribute's field codes; otherwise it returns the entry, with the string
\* form of the value.
C21_OverwriteProtection ==
    [][pc = "build" =>
        /\ pc' = "read"
        /\ \A k \in DOMAIN BITRIX_FIELD_ENV_MAP :
              LET abcp_key == BITRIX_FIELD_ENV_MAP[k].abcp_key
              IN  \A c \in ConfiguredCodes(k) :
                      IF ~_overwrite_for_field(abcp_key) /\ RowEmpty(rows[i], abcp_key)
                      THEN c \notin DOMAIN new_fields'
                      ELSE c \in DOMAIN new_fields' /\ new_fields'[c] = RowStr(rows[i], abcp_key)
    ]_vars

(***************************************************************************)
(* Properties of the stages and their tables                               *)
(***************************************************************************)
\* C22: the fetch stage leaves sync_status and sync_audit as they are and
\* the reconcile stage leaves garage as it is; with --only-sync nothing is
\* fetched and garage is not written, with --only-store no CRM call is made
\* and no outcome is written.
C22_StagesWriteOnlyTheirTables ==
    /\ [][(pc \in {"start", "fetch"}) =>
            /\ sync_status' = sync_status
            /\ sync_audit' = sync_audit
            /\ tx' = tx
         ]_vars
    /\ [][(pc \notin {"start", "fetch"}) => garage' = garage]_vars
    /\ [][args.only_sync => (garage' = garage /\ fetchLog' = fetchLog)]_vars
    /\ [][args.only_store =>
            /\ sync_status' = sync_status
            /\ sync_audit' = sync_audit
            /\ tx' = tx
            /\ events' = events
         ]_vars
    /\ [](args.only_sync => fetchLog = <<>>)
    /\ [](args.only_store => (events = <<>> /\ tx = <<>>))

\* A run of both stages: the fetch stage has replaced a stored record and
\* the reconcile stage has then recorded an outcome.
C22_Witness ==
    /\ ~args.only_sync /\ ~args.only_store
    /\ garage # PriorGarage /\ PriorGarage # {}
    /\ \E n \in DOMAIN fetchLog : fetchLog[n].stored
    /\ Len(sync_audit) > Len(PriorAudit)
    /\ \E p \in DOMAIN events : events[p].kind = "crm"

\* The sync_status row of user v in a table (NoArgs' row when v has none).
StatusOf(st, v) == IF v \in DOMAIN st THEN st[v] ELSE StatusRow(NoArgs)

\* C23: sync_all(user_id = u) selects rows of customer u only, makes CRM
\* calls for rows of u only, and leaves the sync_status row and the
\* sync_audit rows of every other customer as they were before the run.
C23_SingleCustomerRestriction ==
    (sync_all_user_id # 0 /\ Selected) =>
        /\ \A k \in DOMAIN rows : rows[k].userId = sync_all_user_id
        /\ \A p \in DOMAIN events :
              events[p].kind = "crm" => rows[events[p].k].userId = sync_all_user_id
        /\ \A v \in UserIds \ {sync_all_user_id} :
              /\ StatusOf(sync_status, v) = StatusOf(PriorStatus, v)
              /\ AuditOf(v) = SelectSeq(PriorAudit, LAMBDA r : r.userId = v)

\* A run restricted to customer 2 has looked the customer up and recorded
\* the outcome, while customer 1 has a stored record and an earlier outcome.
C23_Witness ==
    /\ sync_all_user_id = 2 /\ pc = "returned"
    /\ \E g \in garage : g.userId = 1
    /\ \E p \in DOMAIN events : events[p].kind = "crm"
    /\ Len(AuditOf(2)) = 2
    /\ Len(AuditOf(1)) = 1

\* C24: a selected row whose userId is None or 0 is counted as skipped (and
\* as nothing else), no CRM call is made for it, and its outcome is recorded
\* under userId 0, without a deal, as "skipped" with the error
\* "row without userId".
C24_RowWithoutUserIdIsSkipped ==
    /\ [](Selected =>
            \A k \in DOMAIN rows :
                rows[k].userId = 0 =>
                    /\ EventsOf(k, "crm") = {}
                    /\ k < i =>
                          /\ k \in DOMAIN sync_audit
                          /\ sync_audit[k] =
                                [ userId |-> 0, dealId |-> 0,
                                  sourceGarageId |-> rows[k].id,
                                  sourceDateUpdated |-> rows[k].dateUpdated,
                                  result |-> "skipped",
                                  fieldsUpdatedCount |-> 0,
                                  fieldsUpdatedJson |-> <<>>,
                                  error |-> "row without userId" ])
    /\ [][(pc = "loop" /\ i <= Len(rows) /\ rows[i].userId = 0) =>
            /\ skipped' = skipped + 1
            /\ ok' = ok /\ errors' = errors
            /\ events' = events
         ]_vars

\* A run has skipped a row without userId and then called the CRM for a
\* customer.
C24_Witness ==
    /\ pc = "returned" /\ Len(rows) = 2
    /\ rows[1].userId = 0 /\ rows[2].userId # 0
    /\ sync_audit[1].error = "row without userId"
    /\ skipped = 2
    /\ CrmRows = {2}

(***************************************************************************)
(* Properties of slice_by_years                                            *)
(***************************************************************************)
\* The later of two datetimes and the earlier of two datetimes.
DtMax(a, b) == IF DtLe(a, b) THEN b ELSE a
DtMin(a, b) == IF DtLe(a, b) THEN a ELSE b

\* C25: the slices are in ascending order, each within one calendar year;
\* the first begins at the later of start and Jan-1 00:00:01 of start's
\* year, every later one at Jan-1 00:00:01 of the year after the slice
\* before it, and each ends at the earlier of Dec-31 23:59:59 of its year
\* and end.  2024-06-15 to 2025-03-10 gives exactly two slices, and a start
\* after the end gives none.
C25_SlicesAreYearlyAndOrdered ==
    pc = "slice_return" =>
        LET start == args.dt_from
            end   == args.dt_to
        IN  /\ \A k \in DOMAIN slices :
                  /\ slices[k][1].year = slices[k][2].year
                  /\ slices[k][2] = DtMin(datetime(slices[k][1].year, 12, 31, 23, 59, 59), end)
                  /\ k = 1 => slices[k][1] = DtMax(start, datetime(start.year, 1, 1, 0, 0, 1))
                  /\ k > 1 => /\ slices[k][1] = datetime(slices[k - 1][1].year + 1, 1, 1, 0, 0, 1)
                              /\ DtGt(slices[k][1], slices[k - 1][2])
            /\ (start = datetime(2024, 6, 15, 0, 0, 0) /\ end = datetime(2025, 3, 10, 0, 0, 0)) =>
                  slices = << <<start, datetime(2024, 12, 31, 23, 59, 59)>>,
                              <<datetime(2025, 1, 1, 0, 0, 1), end>> >>
            /\ DtGt(start, end) => slices = <<>>
            /\ DtLe(DtMax(start, datetime(start.year, 1, 1, 0, 0, 1)), end) => slices # <<>>

\* The period of the example has been sliced in two.
C25_Witness ==
    /\ pc = "slice_return"
    /\ args.dt_from = datetime(2024, 6, 15, 0, 0, 0)
    /\ args.dt_to = datetime(2025, 3, 10, 0, 0, 0)
    /\ Len(slices) = 2

\* The slices that contain the datetime t.
SlicesWith(t) == {k \in DOMAIN slices : DtLe(slices[k][1], t) /\ DtLe(t, slices[k][2])}

\* C26: the slices cover the period without gap or overlap: every datetime
\* of whole seconds from start to end lies in exactly one slice.
C26_SlicesCoverThePeriod ==
    pc = "slice_return" =>
        \A t \in Instants :
            (t.us = 0 /\ DtLe(args.dt_from, t) /\ DtLe(t, args.dt_to)) =>
                Cardinality(SlicesWith(t)) = 1

(***************************************************************************)
(* Properties of main's loop                                               *)
(***************************************************************************)
\* main is over: it returned, or an exception left it.
MainEnded == pc \in {"main_exit", "main_raised"}

\* C27: with --loop-every and ABCP_B24_LOOP_LIMIT = L > 0, main ends after
\* exactly L iterations and L - 1 sleeps, with one sleep between two
\* iterations; without --loop-every it ends after exactly one iteration and
\* no sleep; with --loop-every and no valid positive limit it does not end.
C27_LoopRunsLimitIterations ==
    LET L == loop_limit(args.loop_limit_env)
    IN  /\ (MainEnded /\ args.loop_every # 0 /\ L > 0) => (iteration = L /\ sleeps = L - 1)
        /\ (MainEnded /\ args.loop_every = 0) => (iteration = 1 /\ sleeps = 0)
        /\ (args.loop_every # 0 /\ L = 0) => ~MainEnded

(***************************************************************************)
(* Properties of fetch_garage                                              *)
(***************************************************************************)
\* The response says "not found" by the convention as the claim words it:
\* errorCode 301 or 404 in the body, or a not-found message, with HTTP 404
\* or HTTP 200.
NotFoundAsWorded(r) ==
    /\ r.status \in {200, 404}
    /\ r.status = 200 => r.body.json
    /\ \/ r.body.json /\ r.body.errorCode \in {PyInt(301), "301", PyInt(404), "404"}
       \/ r.body.phrase

\* The response says "not found" by the convention fetch_garage follows:
\* errorCode 301 or 404 in the body with HTTP 404 or HTTP 200, or a
\* not-found message with HTTP 404.
NotFoundResponse(r) ==
    \/ /\ r.status \in {200, 404}
       /\ r.body.json
       /\ r.body.errorCode \in {PyInt(301), "301", PyInt(404), "404"}
    \/ r.status = 404 /\ r.body.phrase

\* C28, as worded: a response with a not-found message or errorCode, with
\* HTTP 404 or 200, gives the empty mapping and no exception.
C28_NotFoundAsWordedIsEmpty ==
    pc = "fetch_return" =>
        LET res == fetchLog[1]
        IN  NotFoundAsWorded(abcp.responses[res.tried]) =>
                (res.raised = "" /\ res.returned = "empty")

\* C28, amended: fetch_garage makes at most three requests and its result
\* is that of the last response it received.  A not-found response (an
\* errorCode 301 or 404 with HTTP 404 or 200, or a not-found message with
\* HTTP 404; never the status alone: a 404 without them is not one) gives
\* the empty mapping and no exception; any other response that is not a
\* 200 ends in an exception; a 200 gives its parsed body.
C28_NotFoundIsEmptyElseRaises ==
    pc = "fetch_return" =>
        LET res == fetchLog[1]
            r   == abcp.responses[res.tried]
        IN  /\ res.tried \in DOMAIN CandidateUrls
            /\ \A k \in 1..(res.tried - 1) :
                  abcp.responses[k].status # 200 /\ ~NotFoundResponse(abcp.responses[k])
            /\ NotFoundResponse(r) => (res.raised = "" /\ res.returned = "empty" /\ payload = <<>>)
            /\ (~NotFoundResponse(r) /\ r.status # 200) => (res.raised # "" /\ res.returned = "")
            /\ (~NotFoundResponse(r) /\ r.status = 200 /\ r.body.json) =>
                  (res.raised = "" /\ payload = r.body.cars)
            /\ res.returned = "empty" =>
                  (NotFoundResponse(r) \/ (r.status = 200 /\ r.body = Body(TRUE, NoneV, FALSE, <<>>)))

\* The first URL answers 404 with a body that says nothing, the second 404
\* with errorCode 301: the result is empty after two requests.
C28_Witness ==
    /\ pc = "fetch_return"
    /\ abcp.responses[1] = [status |-> 404, body |-> Body(TRUE, NoneV, FALSE, <<>>)]
    /\ abcp.responses[2] = [status |-> 404, body |-> Body(TRUE, PyInt(301), TRUE, <<>>)]
    /\ fetchLog[1] = [raised |-> "", returned |-> "empty", tried |-> 2]

C30_InvalidOffsetFallsBack ==
    (pc = "datetime_return" /\ args.B24_TZ_OFFSET \notin DOMAIN OffsetTexts) =>
        \A k \in DOMAIN diff :
            IsDatetimeForm(diff[k]) =>
                LET f == DatetimeForm(diff[k])
                IN  IF f.kind = "offset" THEN current[k] = diff[k]
                    ELSE current[k] = f.date \o "T" \o f.time \o "+03:00"

(***************************************************************************)
(* Properties of the counters and of the recorded outcomes of sync_all     *)
(***************************************************************************)
\* The rows whose committed outcome is result.
RowsRecorded(result) ==
    {k \in 1..Len(rows) : \E p \in EventsOf(k, "outcome") : events[p].what = result}

RowsOf(u) == {k \in 1..Len(rows) : rows[k].userId = u}
CallsFor(u, method) == UNION {CrmCalls(k, method) : k \in RowsOf(u)}
OutcomesFor(u) == UNION {EventsOf(k, "outcome") : k \in RowsOf(u)}

\* C32: in one run of sync_all a customer is processed at most once: at
\* most one deal lookup and at most one update call are made for the
\* customer, and when sync_all returns one outcome has been recorded for
\* every customer that has a stored record.
C32_EachCustomerProcessedOnce ==
    \A u \in UserIds \ {0} :
        /\ Cardinality(CallsFor(u, "crm.deal.list")) <= 1
        /\ Cardinality(CallsFor(u, "crm.deal.update")) <= 1
        /\ (pc = "returned" /\ RowsOf(u) # {}) => Cardinality(OutcomesFor(u)) = 1

C39_EverySliceStartsBeforeItEnds ==
    pc = "slice_return" =>
        \A k \in DOMAIN slices : DtLe(slices[k][1], slices[k][2])

(***************************************************************************)
(* Properties of the transport layer                                       *)
(***************************************************************************)
\* A timeout, a 5xx or a 429.
TransportFailure(a) == a = NoAnswer \/ a = 429 \/ (500 <= a /\ a < 600)

\* C35: an external call, to ABCP or to the CRM, whose attempt hits a
\* timeout, a 5xx or a 429 is repeated; the number of attempts is bounded,
\* and the failure reaches the caller only when the retries are used up.
C35_FailuresAreRetriedBeforeSurfacing ==
    pc = "responded" =>
        LET r == fetchLog[1]
        IN  /\ TransportFailure(net[1]) => r.attempts >= 2
            /\ r.attempts <= REQUESTS_RETRIES + 1
            /\ TransportFailure(r.status) => r.attempts = REQUESTS_RETRIES + 1

(***************************************************************************)
(* Properties of the Bitrix24 client                                       *)
(***************************************************************************)
\* The metadata lookups made so far.
Lookups == {p \in DOMAIN events : events[p].kind = "lookup"}

\* C37: the metadata list is cached: a lookup of a code the cached map
\* holds requests no list and leaves the cache as it is; a lookup of a code
\* the cached map lacks clears the cache and requests the list once, and
\* returns empty metadata when the list still lacks the code (the metadata
\* of the code when the list has it now).  With nothing cached the list is
\* loaded once first, and a code it lacks is handled in the same way.
C37_MetadataCachedAndRefetchedOnceOnMiss ==
    \A p \in Lookups :
        LET e == events[p]
            held == e.cached # NoCache /\ e.code \in e.cached[1]
            lacked == e.cached # NoCache /\ e.code \notin e.cached[1]
        IN  /\ held => /\ e.loads = 0 /\ e.cleared = 0 /\ e.reloads = 0
                       /\ e.after = e.cached
                       /\ ~e.raised
            /\ lacked => /\ e.loads = 0 /\ e.cleared = 1 /\ e.reloads = 1
            /\ e.cached = NoCache => /\ e.loads = 1
                                     /\ e.cleared = e.reloads
                                     /\ e.reloads <= 1
            /\ (e.cleared = 1 /\ ~e.raised) =>
                   /\ e.after # NoCache
                   /\ e.meta = IF e.code \in e.after[1] THEN UserTypeId[e.code] ELSE NoneV

\* A lookup missed a field that was defined after the map had been cached,
\* and another one missed a field the CRM does not define.
C37_Witness ==
    /\ \E p \in Lookups :
          /\ events[p].cached # NoCache /\ events[p].code \notin events[p].cached[1]
          /\ events[p].reloads = 1 /\ events[p].meta = "integer"
    /\ \E p \in Lookups :
          /\ events[p].cached # NoCache /\ events[p].code \notin events[p].cached[1]
          /\ ~events[p].raised /\ events[p].meta = NoneV
    /\ \E p \in Lookups :
          /\ events[p].cached # NoCache /\ events[p].code \in events[p].cached[1]

\* C36: whenever the response to a request of update_deal_fields or of the
\* metadata lookup carries an error envelope, the exception raised for it
\* leaves that function: none is caught and passed over inside it.
C36_ErrorEnvelopeIsNeverSwallowed ==
    \A p \in DOMAIN events :
        (events[p].kind = "crm" /\ events[p].envelope) => events[p].propagated

\* The crm.deal.update request of row k was answered without an error.
UpdateApplied(k) ==
    \E p \in CrmCalls(k, "crm.deal.update") : ~events[p].envelope

\* C34: when the crm.deal.update request itself succeeds and the local
\* store accepts the outcome, the customer is counted and recorded as
\* 'updated', whatever the verification after the write finds or runs into.
C34_VerificationNeverChangesTheOutcome ==
    (/\ pc = "returned"
     /\ UpdateApplied(1)
     /\ sync_audit # <<>>
     /\ sync_audit[Len(sync_audit)].error # "sqlite3.OperationalError") =>
        /\ sync_audit[Len(sync_audit)].result = "updated"
        /\ sync_status[1].lastResult = "updated"
        /\ ok = 1 /\ errors = 0

====
